---- MODULE Spec2Model ----
(***************************************************************************)
(* A model of the end-to-end encryption layer of the chat application:     *)
(* src/src/lib/crypto.ts (key custody in IndexedDB, hybrid multi-recipient *)
(* envelopes) and of its callers: the chat page of src/src/pages/Invite.tsx*)
(* and signup and login of src/src/pages/Auth.tsx.                         *)
(*                                                                         *)
(* Cryptography is modelled symbolically.  A buffer is a term that records *)
(* how it was made; AES-GCM and RSA-OAEP decryption succeed exactly when   *)
(* the key (and IV) are the ones the term was made with and the term has   *)
(* not been altered.  Values of crypto.getRandomValues and generateKey are *)
(* fresh numbers drawn from the counter rnd.  Text conversions (TextEncoder*)
(* and TextDecoder, btoa/atob, JSON.stringify/JSON.parse) are computed.    *)
(***************************************************************************)
EXTENDS Integers, Sequences, FiniteSets, TLC

VARIABLES rnd, env, keyLog, dec, misuse, vault, lastStore, lastPut, ret, wrongTried,
          storing, reading, wrapLog,
          session, unlockedKey, initPc, queryData, channel, pending, audit,
          profiles, friendProfile, myProfile, profileSelects, messagesTable, messages, toast,
          signup, invite_tokens, friend_requests, now, page, listToast, copying

vars == <<rnd, env, keyLog, dec, misuse, vault, lastStore, lastPut, ret, wrongTried,
          storing, reading, wrapLog,
          session, unlockedKey, initPc, queryData, channel, pending, audit,
          profiles, friendProfile, myProfile, profileSelects, messagesTable, messages, toast,
          signup, invite_tokens, friend_requests, now, page, listToast, copying>>

inviteVars == <<invite_tokens, friend_requests, now, page, listToast, copying>>

chatVars == <<session, unlockedKey, initPc, queryData, channel, pending, audit,
              profiles, friendProfile, myProfile, profileSelects, messagesTable, messages, toast,
              signup, inviteVars>>

envelopeVars == <<env, keyLog, dec, misuse>>
vaultVars == <<vault, lastStore, lastPut, ret, wrongTried>>
asyncVars == <<storing, reading, wrapLog>>

(***************************************************************************)
(* Bounds of the model.                                                    *)
(***************************************************************************)
MaxTextLen == 1
MaxCalls == 2
MaxStores == 3
MaxMessages == 2
MaxWrites == 2
MaxTime == 14
MaxRequests == 1

(***************************************************************************)
(* User identifiers (auth.users ids) and the RSA key pair each one holds.  *)
(* alice and bob hold pairs made by generateKeyPair (2048-bit modulus);    *)
(* carol published a 3072-bit key, which importPublicKey accepts as well:  *)
(* the import fixes the algorithm and the hash, not the modulus length.    *)
(***************************************************************************)
Users == {"alice", "bob", "carol"}

modulusLength == 2048

ModulusLengthOf(kid) == IF kid = "carol" THEN 3072 ELSE modulusLength

KeyPairOf(u) == [kid |-> u, bits |-> ModulusLengthOf(u)]

\* The users whose key pair generateKeyPair made.
GeneratedOwners == {u \in Users : ModulusLengthOf(u) = modulusLength}

NoKeyPair == [kid |-> "", bits |-> 0]

(***************************************************************************)
(* CryptoKey objects.                                                      *)
(***************************************************************************)
NoBuf == [b |-> "none"]

PublicKey(kp) ==
  [type |-> "public", alg |-> "RSA-OAEP", kp |-> kp, raw |-> NoBuf,
   extractable |-> TRUE, usages |-> {"encrypt"}]

PrivateKey(kp) ==
  [type |-> "private", alg |-> "RSA-OAEP", kp |-> kp, raw |-> NoBuf,
   extractable |-> FALSE, usages |-> {"decrypt"}]

SecretKey(raw, usages) ==
  [type |-> "secret", alg |-> "AES-GCM", kp |-> NoKeyPair, raw |-> raw,
   extractable |-> FALSE, usages |-> usages]

NoKey ==
  [type |-> "none", alg |-> "", kp |-> NoKeyPair, raw |-> NoBuf,
   extractable |-> FALSE, usages |-> {}]

generateKeyPair(kid) ==
  LET kp == [kid |-> kid, bits |-> modulusLength]
  IN  [publicKey |-> [PublicKey(kp) EXCEPT !.extractable = TRUE],
       privateKey |-> [PrivateKey(kp) EXCEPT !.extractable = TRUE]]

(***************************************************************************)
(* Buffers.                                                                *)
(***************************************************************************)
RandomBytes(n) == [b |-> "random", n |-> n]

Bytes(seq) == [b |-> "bytes", seq |-> seq]

Spki(kp) == [b |-> "spki", kp |-> kp]

Pkcs8(kp) == [b |-> "pkcs8", kp |-> kp]

\* A buffer in which some bit was changed; look names what the changed bytes
\* read as once base64-encoded.
FlipBit(buf, look) == [b |-> "flipped", of |-> buf, look |-> look]

(***************************************************************************)
(* JavaScript strings are sequences of UTF-16 code units.  The plaintexts  *)
(* of the model are over "h", the surrogate pair of U+1F600 and U+FEFF.    *)
(***************************************************************************)
CodeUnits == {104, 55357, 56832, 65279}

RECURSIVE SeqsUpTo(_, _)
SeqsUpTo(S, n) ==
  IF n = 0 THEN {<< >>}
  ELSE LET shorter == SeqsUpTo(S, n - 1)
       IN  shorter \cup {Append(s, c) : s \in shorter, c \in S}

Plaintexts == SeqsUpTo(CodeUnits, MaxTextLen)

IsHighSurrogate(c) == c >= 55296 /\ c <= 56319
IsLowSurrogate(c) == c >= 56320 /\ c <= 57343

\* The conversion of a string to scalar values that TextEncoder applies:
\* a surrogate pair is one scalar value, a lone surrogate becomes U+FFFD.
RECURSIVE ToScalarValues(_)
ToScalarValues(s) ==
  IF s = << >> THEN << >>
  ELSE IF IsHighSurrogate(s[1]) /\ Len(s) >= 2 /\ IsLowSurrogate(s[2])
       THEN <<65536 + (s[1] - 55296) * 1024 + (s[2] - 56320)>>
              \o ToScalarValues(SubSeq(s, 3, Len(s)))
       ELSE IF IsHighSurrogate(s[1]) \/ IsLowSurrogate(s[1])
            THEN <<65533>> \o ToScalarValues(Tail(s))
            ELSE <<s[1]>> \o ToScalarValues(Tail(s))

Utf8OfScalar(c) ==
  IF c < 128 THEN <<c>>
  ELSE IF c < 2048 THEN <<192 + (c \div 64), 128 + (c % 64)>>
  ELSE IF c < 65536
       THEN <<224 + (c \div 4096), 128 + ((c \div 64) % 64), 128 + (c % 64)>>
       ELSE <<240 + (c \div 262144), 128 + ((c \div 4096) % 64),
              128 + ((c \div 64) % 64), 128 + (c % 64)>>

RECURSIVE Utf8OfScalars(_)
Utf8OfScalars(cs) ==
  IF cs = << >> THEN << >> ELSE Utf8OfScalar(cs[1]) \o Utf8OfScalars(Tail(cs))

\* new TextEncoder().encode(s)
TextEncode(s) == Utf8OfScalars(ToScalarValues(s))

IsContinuation(bs, i) == i <= Len(bs) /\ bs[i] >= 128 /\ bs[i] <= 191

\* The number of bytes the decoder needs after a lead byte; 0 for a byte
\* that is no lead byte (0x80..0xC1, 0xF5..0xFF).
Utf8BytesNeeded(b) ==
  IF b >= 194 /\ b <= 223 THEN 1
  ELSE IF b >= 224 /\ b <= 239 THEN 2
  ELSE IF b >= 240 /\ b <= 244 THEN 3
  ELSE 0

\* The bounds of the byte after a lead byte: they exclude overlong forms,
\* surrogates and values above U+10FFFF.
Utf8LowerBoundary(b) == IF b = 224 THEN 160 ELSE IF b = 240 THEN 144 ELSE 128
Utf8UpperBoundary(b) == IF b = 237 THEN 159 ELSE IF b = 244 THEN 143 ELSE 191

\* The scalar values of a byte sequence.  A byte that is no lead byte decodes
\* to U+FFFD; a sequence cut short by a byte out of bounds, or by the end of
\* the input, decodes to one U+FFFD, and decoding goes on at that byte.
RECURSIVE ScalarsOfUtf8(_)
ScalarsOfUtf8(bs) ==
  IF bs = << >> THEN << >>
  ELSE IF bs[1] < 128 THEN <<bs[1]>> \o ScalarsOfUtf8(Tail(bs))
  ELSE LET needed == Utf8BytesNeeded(bs[1])
           second == /\ Len(bs) >= 2
                     /\ bs[2] >= Utf8LowerBoundary(bs[1])
                     /\ bs[2] <= Utf8UpperBoundary(bs[1])
       IN  IF needed = 0 \/ ~second
           THEN <<65533>> \o ScalarsOfUtf8(Tail(bs))
           ELSE IF needed = 1
           THEN <<(bs[1] - 192) * 64 + (bs[2] - 128)>>
                  \o ScalarsOfUtf8(SubSeq(bs, 3, Len(bs)))
           ELSE IF ~IsContinuation(bs, 3)
           THEN <<65533>> \o ScalarsOfUtf8(SubSeq(bs, 3, Len(bs)))
           ELSE IF needed = 2
           THEN <<(bs[1] - 224) * 4096 + (bs[2] - 128) * 64 + (bs[3] - 128)>>
                  \o ScalarsOfUtf8(SubSeq(bs, 4, Len(bs)))
           ELSE IF ~IsContinuation(bs, 4)
           THEN <<65533>> \o ScalarsOfUtf8(SubSeq(bs, 4, Len(bs)))
           ELSE <<(bs[1] - 240) * 262144 + (bs[2] - 128) * 4096
                    + (bs[3] - 128) * 64 + (bs[4] - 128)>>
                  \o ScalarsOfUtf8(SubSeq(bs, 5, Len(bs)))

RECURSIVE CodeUnitsOfScalars(_)
CodeUnitsOfScalars(cs) ==
  IF cs = << >> THEN << >>
  ELSE IF cs[1] >= 65536
       THEN <<55296 + ((cs[1] - 65536) \div 1024),
              56320 + ((cs[1] - 65536) % 1024)>>
              \o CodeUnitsOfScalars(Tail(cs))
       ELSE <<cs[1]>> \o CodeUnitsOfScalars(Tail(cs))

\* new TextDecoder().decode(bytes): the decoder is made with its defaults
\* (ignoreBOM false), so a leading byte order mark is not part of the output.
TextDecode(bs) ==
  LET cs == ScalarsOfUtf8(bs)
      body == IF cs # << >> /\ cs[1] = 65279 THEN Tail(cs) ELSE cs
  IN  CodeUnitsOfScalars(body)

(***************************************************************************)
(* Results of calls that may throw.                                        *)
(***************************************************************************)
BufOk(buf) == [ok |-> TRUE, buf |-> buf, err |-> ""]
BufThrow(e) == [ok |-> FALSE, buf |-> NoBuf, err |-> e]

TextOk(s) == [ok |-> TRUE, text |-> s, err |-> ""]
TextThrow(e) == [ok |-> FALSE, text |-> << >>, err |-> e]

(***************************************************************************)
(* Web Crypto primitives.                                                  *)
(***************************************************************************)
\* crypto.subtle.deriveKey({name: 'PBKDF2', salt, iterations, hash: 'SHA-256'},
\* keyMaterial, ...): the raw key derived from the imported bytes.
Pbkdf2(keyMaterial, salt, iters) ==
  [b |-> "pbkdf2", keyMaterial |-> keyMaterial, salt |-> salt, iterations |-> iters]

\* crypto.subtle.encrypt({name: 'AES-GCM', iv}, key, data): ciphertext and tag.
AesGcmEncrypt(key, iv, data) ==
  IF key.type = "secret" /\ "encrypt" \in key.usages
  THEN BufOk([b |-> "aes-gcm", key |-> key.raw, iv |-> iv, data |-> data])
  ELSE BufThrow("InvalidAccessError")

\* crypto.subtle.decrypt({name: 'AES-GCM', iv}, key, ct): the tag verifies only
\* under the key and the IV of the encryption, on the unaltered ciphertext.
AesGcmDecrypt(key, iv, ct) ==
  IF ~(key.type = "secret" /\ "decrypt" \in key.usages)
  THEN BufThrow("InvalidAccessError")
  ELSE IF ct.b = "aes-gcm" /\ ct.key = key.raw /\ ct.iv = iv
       THEN BufOk(ct.data)
       ELSE BufThrow("OperationError")

\* The base64 text of an RSA-OAEP ciphertext is as long as the modulus asks
\* for: 256 bytes (2048 bits) always end in "==", 384 bytes (3072 bits) have
\* no padding, and the random bytes may then read as a JSON number ("digits").
OaepLooks(kp) ==
  IF (kp.bits \div 8) % 3 = 0 THEN {"plain", "digits"} ELSE {"plain"}

\* crypto.subtle.encrypt({name: 'RSA-OAEP'}, key, data); look names what the
\* randomised ciphertext bytes read as once base64-encoded.
RsaOaepEncrypt(key, data, look) ==
  IF key.type = "public" /\ "encrypt" \in key.usages
  THEN BufOk([b |-> "rsa-oaep", kp |-> key.kp, data |-> data, look |-> look])
  ELSE BufThrow("InvalidAccessError")

\* RsaOaepDecrypt that unwraps whatever the private key is.
RsaOaepDecrypt_AnyKey(key, ct) ==
  IF ~(key.type = "private" /\ "decrypt" \in key.usages)
  THEN BufThrow("InvalidAccessError")
  ELSE IF ct.b = "rsa-oaep"
       THEN BufOk(ct.data)
       ELSE BufThrow("OperationError")

\* crypto.subtle.decrypt({name: 'RSA-OAEP'}, key, ct)
RsaOaepDecrypt(key, ct) ==
  IF ~(key.type = "private" /\ "decrypt" \in key.usages)
  THEN BufThrow("InvalidAccessError")
  ELSE IF ct.b = "rsa-oaep" /\ ct.kp = key.kp
       THEN BufOk(ct.data)
       ELSE BufThrow("OperationError")

\* crypto.subtle.importKey('raw', buf, {name: 'AES-GCM', length: 256}, false, usages)
ImportAesKey(buf, usages) ==
  IF buf.b \in {"random", "pbkdf2"}
  THEN [ok |-> TRUE, key |-> SecretKey(buf, usages), err |-> ""]
  ELSE [ok |-> FALSE, key |-> NoKey, err |-> "DataError"]

(***************************************************************************)
(* Strings on the wire: base64 texts and JSON texts.                       *)
(***************************************************************************)
\* btoa(String.fromCharCode(...new Uint8Array(buf)))
Btoa(buf) == [t |-> "b64", buf |-> buf, entries |-> << >>]

\* The value undefined, which atob converts to the string "undefined".
Undefined == [t |-> "undefined", buf |-> NoBuf, entries |-> << >>]

\* atob(text): the bytes of a base64 text; any other text throws.
Atob(text) ==
  IF text.t = "b64" THEN BufOk(text.buf) ELSE BufThrow("InvalidCharacterError")

\* JSON.stringify of an object whose values are strings; entries are in the
\* object's insertion order.
JsonStringify(entries) == [t |-> "json", buf |-> NoBuf, entries |-> entries]

\* What JSON.parse makes of a base64 text: the text of an RSA-OAEP buffer,
\* changed or not, may be all digits.
LookOf(text) ==
  IF text.t = "b64" /\ text.buf.b \in {"rsa-oaep", "flipped"}
  THEN text.buf.look
  ELSE "plain"

\* JSON.parse(text): an object, a number (a text of digits), or a SyntaxError.
JsonParse(text) ==
  IF text.t = "json" THEN [ok |-> TRUE, kind |-> "object", entries |-> text.entries]
  ELSE IF LookOf(text) = "digits"
       THEN [ok |-> TRUE, kind |-> "number", entries |-> << >>]
       ELSE [ok |-> FALSE, kind |-> "", entries |-> << >>]

HasEntry(entries, id) == \E i \in 1..Len(entries) : entries[i].id = id

EntryOf(entries, id) ==
  entries[CHOOSE i \in 1..Len(entries) : entries[i].id = id].val

Ids(entries) == {entries[i].id : i \in 1..Len(entries)}

(***************************************************************************)
(* encryptMessage and decryptMessage.                                      *)
(***************************************************************************)
NoEnvelope == [ciphertext |-> Undefined, encryptedKeys |-> << >>, iv |-> Undefined]

\* FreshKeyAndIv with one key and one IV kept for all calls.
FreshKeyAndIv_Reused(r) == [aesRaw |-> RandomBytes(0), ivArr |-> RandomBytes(0)]

\* The AES key of generateKey and the 12 bytes of getRandomValues of one
\* call, drawn at position r of the random source.
FreshKeyAndIv(r) == [aesRaw |-> RandomBytes(r), ivArr |-> RandomBytes(r + 1)]

\* One turn of the loop over Object.entries(publicKeys): the exported AES key
\* under one recipient's RSA public key, as base64.
WrapForRecipient(key, exportedAesKey, look) ==
  LET encryptedKeyBuf == RsaOaepEncrypt(key, exportedAesKey, look)
  IN  IF encryptedKeyBuf.ok THEN Btoa(encryptedKeyBuf.buf) ELSE Undefined

\* The object encryptedKeys after the loop: one entry per entry of publicKeys,
\* in its order.
WrapForAll(publicKeys, exportedAesKey, looks) ==
  [i \in 1..Len(publicKeys) |->
     [id |-> publicKeys[i].id,
      val |-> WrapForRecipient(publicKeys[i].key, exportedAesKey, looks[i])]]

\* encryptMessage(plaintext, publicKeys); publicKeys is the sequence of the
\* object's entries, fresh the random values of this call, looks what each
\* RSA-OAEP ciphertext reads as.
encryptMessage(plaintext, publicKeys, fresh, looks) ==
  LET aesKey == [SecretKey(fresh.aesRaw, {"encrypt"}) EXCEPT !.extractable = TRUE]
      encoded == Bytes(TextEncode(plaintext))
      ciphertextBuf == AesGcmEncrypt(aesKey, fresh.ivArr, encoded)
      exportedAesKey == aesKey.raw
      encryptedKeys == WrapForAll(publicKeys, exportedAesKey, looks)
  IN  IF ~ciphertextBuf.ok
        THEN [ok |-> FALSE, envelope |-> NoEnvelope, err |-> ciphertextBuf.err]
      ELSE IF \E i \in 1..Len(encryptedKeys) : encryptedKeys[i].val = Undefined
        THEN [ok |-> FALSE, envelope |-> NoEnvelope, err |-> "InvalidAccessError"]
      ELSE [ok |-> TRUE,
            envelope |-> [ciphertext |-> Btoa(ciphertextBuf.buf),
                          encryptedKeys |-> encryptedKeys,
                          iv |-> Btoa(fresh.ivArr)],
            err |-> ""]

\* ResolveEncryptedKey without the fallback to the first entry.
ResolveEncryptedKey_FailClosed(encryptedKeyData, myUserId) ==
  LET parsedKeys == JsonParse(encryptedKeyData)
  IN  IF ~parsedKeys.ok THEN encryptedKeyData
      ELSE IF parsedKeys.kind = "object" /\ HasEntry(parsedKeys.entries, myUserId)
        THEN EntryOf(parsedKeys.entries, myUserId)
      ELSE Undefined

\* Step 1 of decryptMessage: which wrapped key to use.  JSON.parse of a text
\* that is no JSON throws and the text itself is taken (legacy format); of a
\* number it returns the number, which has no properties and no values.
ResolveEncryptedKey(encryptedKeyData, myUserId) ==
  LET parsedKeys == JsonParse(encryptedKeyData)
  IN  IF ~parsedKeys.ok THEN encryptedKeyData
      ELSE IF parsedKeys.kind = "object"
        THEN IF HasEntry(parsedKeys.entries, myUserId)
             THEN EntryOf(parsedKeys.entries, myUserId)
             ELSE IF parsedKeys.entries # << >>
                  THEN parsedKeys.entries[1].val
                  ELSE Undefined
      ELSE Undefined

\* Steps 3 and 4 of decryptMessage, on the decoded buffers.
DecryptBuffers(ciphertextBuf, encryptedKeyBuf, ivBuf, privateKey) ==
  LET aesKeyBuf == RsaOaepDecrypt(privateKey, encryptedKeyBuf)
      aesKey == ImportAesKey(aesKeyBuf.buf, {"decrypt"})
      decrypted == AesGcmDecrypt(aesKey.key, ivBuf, ciphertextBuf)
  IN  IF ~aesKeyBuf.ok THEN TextThrow(aesKeyBuf.err)
      ELSE IF ~aesKey.ok THEN TextThrow(aesKey.err)
      ELSE IF ~decrypted.ok THEN TextThrow(decrypted.err)
      ELSE IF decrypted.buf.b # "bytes" THEN TextThrow("NotText")
      ELSE TextOk(TextDecode(decrypted.buf.seq))

\* decryptMessage(ciphertext, encryptedKeyData, iv, privateKey, myUserId)
decryptMessage(ciphertext, encryptedKeyData, iv, privateKey, myUserId) ==
  LET encryptedKeyB64 == ResolveEncryptedKey(encryptedKeyData, myUserId)
      ciphertextBuf == Atob(ciphertext)
      encryptedKeyBuf == Atob(encryptedKeyB64)
      ivBuf == Atob(iv)
  IN  IF ~ciphertextBuf.ok THEN TextThrow(ciphertextBuf.err)
      ELSE IF ~encryptedKeyBuf.ok THEN TextThrow(encryptedKeyBuf.err)
      ELSE IF ~ivBuf.ok THEN TextThrow(ivBuf.err)
      ELSE DecryptBuffers(ciphertextBuf.buf, encryptedKeyBuf.buf, ivBuf.buf,
                          privateKey)

(***************************************************************************)
(* The key vault: the object store 'keypairs' of IndexedDB, a function     *)
(* from the user ids that have a record to the records.                    *)
(***************************************************************************)
iterations == 100000

\* Passwords are JavaScript strings: "h", a lone high surrogate and U+FFFD;
\* the last two are different strings that TextEncoder encodes alike.
Passwords == {<<104>>, <<55357>>, <<65533>>}

\* No password: what sessionStorage.getItem returns for a missing key counts,
\* like the empty string, as none.
NoPassword == << >>

NoRecord == [encrypted |-> NoBuf, salt |-> NoBuf, iv |-> NoBuf]

\* encryptPrivateKey that returns the exported key as it is.
encryptPrivateKey_Unwrapped(privateKey, password, salt, iv) ==
  IF privateKey.type = "private" /\ privateKey.extractable
  THEN [ok |-> TRUE,
        record |-> [encrypted |-> Pkcs8(privateKey.kp), salt |-> salt, iv |-> iv]]
  ELSE [ok |-> FALSE, record |-> NoRecord]

\* encryptPrivateKey(privateKey, password), with the salt and the IV that
\* getRandomValues returned.
encryptPrivateKey(privateKey, password, salt, iv) ==
  LET derivedKey == SecretKey(Pbkdf2(TextEncode(password), salt, iterations),
                             {"encrypt"})
      encrypted == AesGcmEncrypt(derivedKey, iv, Pkcs8(privateKey.kp))
  IN  IF privateKey.type = "private" /\ privateKey.extractable /\ encrypted.ok
      THEN [ok |-> TRUE,
            record |-> [encrypted |-> encrypted.buf, salt |-> salt, iv |-> iv]]
      ELSE [ok |-> FALSE, record |-> NoRecord]

\* decryptPrivateKey(encrypted, salt, iv, password)
decryptPrivateKey(encrypted, salt, iv, password) ==
  LET derivedKey == SecretKey(Pbkdf2(TextEncode(password), salt, iterations),
                             {"decrypt"})
      decrypted == AesGcmDecrypt(derivedKey, iv, encrypted)
  IN  IF ~decrypted.ok THEN [ok |-> FALSE, key |-> NoKey, err |-> decrypted.err]
      ELSE IF decrypted.buf.b # "pkcs8"
        THEN [ok |-> FALSE, key |-> NoKey, err |-> "DataError"]
      ELSE [ok |-> TRUE, key |-> PrivateKey(decrypted.buf.kp), err |-> ""]

\* Put that writes the ciphertext and leaves the salt and the IV of a record
\* the store already holds.
Put_FieldByField(store, userId, record) ==
  [k \in DOMAIN store \cup {userId} |->
     IF k # userId THEN store[k]
     ELSE IF k \in DOMAIN store
          THEN [encrypted |-> record.encrypted, salt |-> store[k].salt, iv |-> store[k].iv]
          ELSE record]

\* tx.objectStore(STORE_NAME).put(record, userId)
Put(store, userId, record) ==
  [k \in DOMAIN store \cup {userId} |-> IF k = userId THEN record ELSE store[k]]

\* storePrivateKey resolving whether or not the transaction completed.
storePrivateKey_Resolved(store, userId, privateKey, password, salt, iv, txOk) ==
  LET wrapped == encryptPrivateKey(privateKey, password, salt, iv)
  IN  IF wrapped.ok /\ txOk
      THEN [ok |-> TRUE, store |-> Put(store, userId, wrapped.record)]
      ELSE [ok |-> TRUE, store |-> store]

\* storePrivateKey(userId, privateKey, password): the store after the call;
\* txOk tells whether the transaction completed.
storePrivateKey(store, userId, privateKey, password, salt, iv, txOk) ==
  LET wrapped == encryptPrivateKey(privateKey, password, salt, iv)
  IN  IF wrapped.ok /\ txOk
      THEN [ok |-> TRUE, store |-> Put(store, userId, wrapped.record)]
      ELSE [ok |-> FALSE, store |-> store]

\* retrievePrivateKey without the test of the record read.
retrievePrivateKey_NoNullCheck(store, userId, password) ==
  IF userId \notin DOMAIN store
  THEN [kind |-> "throw", key |-> NoKey, err |-> "TypeError", decrypts |-> 0]
  ELSE LET data == store[userId]
           pk == decryptPrivateKey(data.encrypted, data.salt, data.iv, password)
       IN  [kind |-> IF pk.ok THEN "key" ELSE "throw", key |-> pk.key,
            err |-> pk.err, decrypts |-> 1]

\* retrievePrivateKey(userId, password): null when the store has no record,
\* else what decryptPrivateKey returns or throws; decrypts counts the calls
\* of decryptPrivateKey.
retrievePrivateKey(store, userId, password) ==
  IF userId \notin DOMAIN store
  THEN [kind |-> "null", key |-> NoKey, err |-> "", decrypts |-> 0]
  ELSE LET data == store[userId]
           pk == decryptPrivateKey(data.encrypted, data.salt, data.iv, password)
       IN  [kind |-> IF pk.ok THEN "key" ELSE "throw", key |-> pk.key,
            err |-> pk.err, decrypts |-> 1]

\* hasPrivateKey(userId)
hasPrivateKey(store, userId) == userId \in DOMAIN store

\* The last call of storePrivateKey: its owner, whether it completed, and
\* the store it found.
NoPut == [called |-> FALSE, userId |-> "", ok |-> FALSE, before |-> << >>]

\* The key pair and the password of the last storePrivateKey that had
\* completed for an owner when a get request read the owner's record.
NoStored == [has |-> FALSE, kp |-> NoKeyPair, password |-> NoPassword]

\* A call of retrievePrivateKey between the result of its get request and
\* its call of decryptPrivateKey.
NoRead ==
  [active |-> FALSE, userId |-> "", password |-> NoPassword, found |-> FALSE, data |-> NoRecord,
   known |-> NoStored]

NoRetrieve ==
  [called |-> FALSE, userId |-> "", password |-> NoPassword, found |-> FALSE,
   known |-> NoStored, before |-> NoRecord, kind |-> "", key |-> NoKey, err |-> "", decrypts |-> 0]

(***************************************************************************)
(* Public keys in transit.                                                 *)
(***************************************************************************)
\* exportPublicKey(key): base64 of the SPKI bytes.
exportPublicKey(key) == Btoa(Spki(key.kp))

\* importPublicKey asking for both usages.
importPublicKey_AllUsages(base64) ==
  LET bytes == Atob(base64)
  IN  IF bytes.ok /\ bytes.buf.b = "spki"
      THEN [ok |-> TRUE,
            key |-> [PublicKey(bytes.buf.kp) EXCEPT !.extractable = FALSE,
                                                    !.usages = {"encrypt", "decrypt"}],
            err |-> ""]
      ELSE [ok |-> FALSE, key |-> NoKey,
            err |-> IF bytes.ok THEN "DataError" ELSE bytes.err]

\* importPublicKey(base64): an RSA-OAEP key that may only encrypt.
importPublicKey(base64) ==
  LET bytes == Atob(base64)
  IN  IF bytes.ok /\ bytes.buf.b = "spki"
      THEN [ok |-> TRUE, key |-> [PublicKey(bytes.buf.kp) EXCEPT !.extractable = FALSE],
            err |-> ""]
      ELSE [ok |-> FALSE, key |-> NoKey,
            err |-> IF bytes.ok THEN "DataError" ELSE bytes.err]

\* The public key a user has published, as a caller of encryptMessage holds it.
PublishedKey(u) == importPublicKey(exportPublicKey(PublicKey(KeyPairOf(u)))).key

(***************************************************************************)
(* The chat page of user talking to friendId: the rows of the tables       *)
(* profiles and messages, and the component's state.                       *)
(***************************************************************************)
user == "alice"
friendId == "bob"

\* The SQL NULL of profiles.public_key, which the row has from its creation
\* by handle_new_user until the owner's update.
Null == [t |-> "null", buf |-> NoBuf, entries |-> << >>]

\* The component state friendProfile and myProfile before init has set it.
NoProfile == [loaded |-> FALSE, public_key |-> Null]

\* The responses of the two selects of init on a user's chat page, before
\* the server has answered them: fProfile is the row of the page's friend,
\* mProfile the row of the page's own user.
NoSelects == [fProfile |-> NoProfile, mProfile |-> NoProfile]

\* The state pending of a sendMessage that awaits the response of its insert.
NoPending == [active |-> FALSE, id |-> 0, text |-> << >>]

\* The realtime channel: whether it is subscribed, and the number of rows
\* the table had when it was.
NoChannel == [on |-> FALSE, from |-> 0]

NoHandled == [called |-> FALSE, id |-> 0, ok |-> FALSE, calls |-> 0]

\* What the page has done so far: the text each row was sent with, the ids
\* the INSERT handler appended, the ids whose sendMessage completed, the
\* result of retrievePrivateKey in init and the number of its calls, the
\* rows, the calls of decryptMessage and the list of loadMessages, and the
\* last event of the INSERT handler.
NoAudit ==
  [sentText |-> << >>, handlerAdded |-> {}, completed |-> {},
   unlock |-> "", unlockCalls |-> 0,
   loaded |-> FALSE, loadRecords |-> << >>, loadCalls |-> 0, loadShown |-> << >>,
   handled |-> NoHandled]

(***************************************************************************)
(* The invite page: the tables invite_tokens and friend_requests with their *)
(* row level security policies, and the component state of each user who   *)
(* has opened /invite/:token.  Times are in days.                          *)
(***************************************************************************)
\* The token of the link.
Token == "t1"

\* The SQL NULL of invite_tokens.used_at and of invite_tokens.used_by.
NullTime == 0 - 1
NullUser == ""

\* The interval of the default of invite_tokens.expires_at.
ExpiresAfterDays == 7

NoInvite ==
  [created_by |-> NullUser, expires_at |-> 0, used_by |-> NullUser,
   used_at |-> NullTime]

\* The row an insert into invite_tokens makes of { created_by }.
NewInvite(created_by, today) ==
  [created_by |-> created_by, expires_at |-> today + ExpiresAfterDays,
   used_by |-> NullUser, used_at |-> NullTime]

\* "Users can read own invite tokens" or "Authenticated users can read
\* tokens to redeem".
InviteTokensSelectPolicy(uid, row) ==
  \/ uid = row.created_by
  \/ uid # NullUser /\ row.used_at = NullTime

\* "Authenticated users can update tokens to redeem".  The policy has no
\* WITH CHECK, so its USING expression is applied to the row an update reads
\* and to the row it writes.
InviteTokensUpdatePolicy(uid, row) == uid # NullUser /\ row.used_at = NullTime

\* "Users can send friend requests".
FriendRequestsInsertPolicy(uid, row) ==
  uid = row.sender_id /\ row.sender_id # row.receiver_id

\* "Receiver can update friend request status", applied to the row read and,
\* the policy having no WITH CHECK, to the row written.
FriendRequestsUpdatePolicy(uid, row) == uid = row.receiver_id

\* The constraints of friend_requests: the CHECK of status and
\* no_self_request.
FriendRequestsConstraints(row) ==
  /\ row.status \in {"pending", "accepted", "rejected"}
  /\ row.sender_id # row.receiver_id

\* from('invite_tokens').select('*').eq('token', t).is('used_at', null)
\* .single() as uid: the row, if the policies show one.
SelectUnusedInvite(uid, table, t) ==
  IF /\ t \in DOMAIN table
     /\ table[t].used_at = NullTime
     /\ InviteTokensSelectPolicy(uid, table[t])
  THEN [found |-> TRUE, row |-> table[t]]
  ELSE [found |-> FALSE, row |-> NoInvite]

\* from('invite_tokens').update({ used_by, used_at }).eq('token', t) as uid:
\* the table after the statement, the number of rows written and whether the
\* statement failed.
UpdateInvite(uid, table, t, used_by, used_at) ==
  IF t \in DOMAIN table /\ InviteTokensUpdatePolicy(uid, table[t])
  THEN LET written == [table[t] EXCEPT !.used_by = used_by, !.used_at = used_at]
       IN  IF InviteTokensUpdatePolicy(uid, written)
           THEN [error |-> FALSE, rows |-> 1, table |-> [table EXCEPT ![t] = written]]
           ELSE [error |-> TRUE, rows |-> 0, table |-> table]
  ELSE [error |-> FALSE, rows |-> 0, table |-> table]

\* from('friend_requests').insert(row) as uid.
InsertFriendRequest(uid, table, row) ==
  IF FriendRequestsInsertPolicy(uid, row) /\ FriendRequestsConstraints(row)
  THEN [error |-> FALSE, table |-> Append(table, row)]
  ELSE [error |-> TRUE, table |-> table]

\* from('friend_requests').update({ status }).eq('id', requestId) as uid,
\* the id of a row being its place in the table.
UpdateFriendRequest(uid, table, requestId, status) ==
  IF requestId \in 1..Len(table) /\ FriendRequestsUpdatePolicy(uid, table[requestId])
  THEN LET written == [table[requestId] EXCEPT !.status = status]
       IN  IF FriendRequestsUpdatePolicy(uid, written) /\ FriendRequestsConstraints(written)
           THEN [error |-> FALSE, table |-> [table EXCEPT ![requestId] = written]]
           ELSE [error |-> TRUE, table |-> table]
  ELSE [error |-> FALSE, table |-> table]

\* What held of the token when a call of acceptInvite began, whether the call
\* has written the token and has made a friend request, and whether it has
\* shown 'Friend added!'.
NoAccept ==
  [called |-> FALSE, exists |-> FALSE, unused |-> FALSE, unexpired |-> FALSE,
   notOwn |-> FALSE, marked |-> FALSE, created |-> FALSE,
   reported |-> FALSE]

\* The invite page of a user who has not opened the link: the component
\* state error and inviterUsername, where loadInvite and acceptInvite stand
\* ("closed", "profile" while loadInvite awaits the inviter's profile, "idle",
\* "selected" after the select of acceptInvite, "updated" after its update),
\* the row the select of the running call returned and the last toast; then
\* what its calls did: the
\* state of the token at the last call, whether an update of this user wrote
\* the token and how many rows this user's inserts made.
NoPage ==
  [error |-> "", inviterUsername |-> "", pc |-> "closed", invite |-> NoInvite,
   toast |-> "", atAccept |-> NoAccept, marked |-> FALSE, created |-> 0]

\* The toast the friend list showed last, and to whom; none so far.
NoListToast == [user |-> "", toast |-> ""]

\* handleSignup before its call: where the call stands ("idle", "created"
\* after auth.signUp, "stored" after storePrivateKey, "done"; a call that
\* failed leaves the form "idle").
NoSignup == [pc |-> "idle"]

\* The code units String.prototype.trim removes, among those of the model.
IsWhiteSpace(c) == c = 65279

RECURSIVE TrimStart(_)
TrimStart(s) ==
  IF s # << >> /\ IsWhiteSpace(s[1]) THEN TrimStart(Tail(s)) ELSE s

RECURSIVE TrimEnd(_)
TrimEnd(s) ==
  IF s # << >> /\ IsWhiteSpace(s[Len(s)]) THEN TrimEnd(SubSeq(s, 1, Len(s) - 1)) ELSE s

Trim(s) == TrimEnd(TrimStart(s))

\* The object pubKeys of sendMessage: the friend's key, then the sender's
\* own key when the sender's profile holds one; ok is FALSE when
\* importPublicKey throws on the sender's own key.
PubKeysOf(rKey, mine) ==
  IF mine.loaded /\ mine.public_key # Null
  THEN LET sKey == importPublicKey(mine.public_key)
       IN  [ok |-> sKey.ok,
            keys |-> IF user = friendId
                     THEN <<[id |-> friendId, key |-> sKey.key]>>
                     ELSE <<[id |-> friendId, key |-> rKey],
                            [id |-> user, key |-> sKey.key]>>]
  ELSE [ok |-> TRUE, keys |-> <<[id |-> friendId, key |-> rKey]>>]

(***************************************************************************)
(* The envelope cipher as a state machine: calls of encryptMessage, then a *)
(* call of decryptMessage on the last envelope as it comes off the wire,   *)
(* unchanged or with one field altered.  env and dec hold the arguments    *)
(* and the result of the last call of each; keyLog the (key, IV) pairs     *)
(* AES-GCM encrypted under so far.                                         *)
(***************************************************************************)
MaxRecipients == 2

RecipientLists ==
  {r \in SeqsUpTo(Users, MaxRecipients) :
     /\ r # << >>
     /\ \A i, j \in 1..Len(r) : i # j => r[i] # r[j]}

NoCall ==
  [called |-> FALSE, plaintext |-> << >>, publicKeys |-> << >>, ok |-> FALSE,
   envelope |-> NoEnvelope]

NoDecrypt ==
  [called |-> FALSE, form |-> "", tamper |-> "", entry |-> 0, look |-> "",
   keyOwner |-> "", myUserId |-> "", result |-> TextThrow("")]

\* Calls that pass a key to the operation it was not imported for.
NoMisuse ==
  [called |-> FALSE, owner |-> "", publicKey |-> NoKey, privateKey |-> NoKey,
   decryptWithPublic |-> TextThrow(""), encryptWithPrivate |-> "",
   decryptWithPrivate |-> TextThrow("")]

\* The private key of u as retrievePrivateKey returns it from a store that
\* storePrivateKey wrote it to.
RetrievedKey(u, password) ==
  LET kept == storePrivateKey(<< >>, u, generateKeyPair(u).privateKey, password,
                              RandomBytes(0), RandomBytes(0), TRUE)
  IN  retrievePrivateKey(kept.store, u, password).key

Forms == {"json", "legacy"}
Tampers == {"none", "ciphertext", "iv", "key"}

\* The looks the base64 text of buf can have after one of its bits was
\* changed: a text of digits may stay one or not, and a text with a single
\* other character may become one.
TamperLooks(text) ==
  LET buf == Atob(text)
  IN  IF buf.ok /\ buf.buf.b = "rsa-oaep" THEN OaepLooks(buf.buf.kp) ELSE {"plain"}

Tamper(text, look) ==
  LET buf == Atob(text) IN IF buf.ok THEN Btoa(FlipBit(buf.buf, look)) ELSE text

\* The message record read back from the store: envelope e with the field
\* named by tamper altered (for "key": the wrapped key of entry n), and
\* encrypted_key either the JSON text of all entries or entry n alone.
WireOf(e, form, tamper, n, look) ==
  LET keys == [i \in 1..Len(e.encryptedKeys) |->
                 IF tamper = "key" /\ i = n
                 THEN [id |-> e.encryptedKeys[i].id, val |-> Tamper(e.encryptedKeys[i].val, look)]
                 ELSE e.encryptedKeys[i]]
  IN  [ciphertext |-> IF tamper = "ciphertext" THEN Tamper(e.ciphertext, "plain") ELSE e.ciphertext,
       encrypted_key |-> IF form = "json" THEN JsonStringify(keys) ELSE keys[n].val,
       iv |-> IF tamper = "iv" THEN Tamper(e.iv, "plain") ELSE e.iv]

Init ==
  /\ rnd = 1
  /\ env = NoCall
  /\ keyLog = << >>
  /\ dec = NoDecrypt
  /\ misuse = NoMisuse
  /\ vault = << >>
  /\ lastStore = << >>
  /\ lastPut = NoPut
  /\ storing = {}
  /\ reading = NoRead
  /\ wrapLog = {}
  /\ ret = NoRetrieve
  /\ wrongTried = {}
  /\ profiles = [u \in Users |-> [public_key |-> Null]]
  /\ friendProfile = NoProfile
  /\ myProfile = NoProfile
  /\ profileSelects = [u \in Users |-> NoSelects]
  /\ messagesTable = << >>
  /\ messages = << >>
  /\ toast = ""
  /\ session = NoPassword
  /\ unlockedKey = NoKey
  /\ initPc = "start"
  /\ queryData = << >>
  /\ channel = NoChannel
  /\ pending = NoPending
  /\ audit = NoAudit
  /\ signup = NoSignup
  /\ invite_tokens = << >>
  /\ friend_requests = << >>
  /\ now = 0
  /\ page = [u \in Users |-> NoPage]
  /\ listToast = NoListToast
  /\ copying = {}

\* A call encryptMessage(plaintext, publicKeys) with the published keys of
\* the recipients r.
Encrypt ==
  /\ ~dec.called /\ ~misuse.called
  /\ Len(keyLog) < MaxCalls
  /\ \E plaintext \in Plaintexts, r \in RecipientLists :
       \E looks \in [1..Len(r) -> {"plain", "digits"}] :
         /\ \A i \in 1..Len(r) : looks[i] \in OaepLooks(KeyPairOf(r[i]))
         /\ LET publicKeys == [i \in 1..Len(r) |-> [id |-> r[i], key |-> PublishedKey(r[i])]]
                res == encryptMessage(plaintext, publicKeys, FreshKeyAndIv(rnd), looks)
                used == Atob(res.envelope.ciphertext).buf
            IN  /\ res.ok
                /\ env' = [called |-> TRUE, plaintext |-> plaintext,
                           publicKeys |-> publicKeys, ok |-> res.ok,
                           envelope |-> res.envelope]
                /\ keyLog' = Append(keyLog,
                                [aesRaw |-> used.key, ivArr |-> used.iv,
                                 differs |-> env.called /\ plaintext # env.plaintext])
  /\ rnd' = rnd + 2
  /\ UNCHANGED <<dec, misuse, vaultVars, asyncVars, chatVars>>

\* A call decryptMessage(msg.ciphertext, msg.encrypted_key, msg.iv, privateKey,
\* myUserId) with the private key of keyOwner.
Decrypt ==
  /\ env.ok
  /\ ~dec.called /\ ~misuse.called
  /\ \E form \in Forms, tamper \in Tampers, n \in 1..Len(env.envelope.encryptedKeys),
        keyOwner \in Users, myUserId \in Users, look \in {"plain", "digits"} :
       LET wire == WireOf(env.envelope, form, tamper, n, look)
       IN  /\ look \in (IF tamper = "key"
                        THEN TamperLooks(env.envelope.encryptedKeys[n].val)
                        ELSE {"plain"})
           /\ dec' =
                  [called |-> TRUE, form |-> form, tamper |-> tamper, entry |-> n,
                   look |-> look,
                   keyOwner |-> keyOwner, myUserId |-> myUserId,
                   result |-> decryptMessage(wire.ciphertext, wire.encrypted_key, wire.iv,
                                             PrivateKey(KeyPairOf(keyOwner)), myUserId)]
  /\ UNCHANGED <<rnd, env, keyLog, misuse, vaultVars, asyncVars, chatVars>>

\* Calls of decryptMessage with the key importPublicKey returned for owner,
\* of encryptMessage with the key retrievePrivateKey returned to owner, and
\* of decryptMessage with that key, on the last envelope.
Misuse ==
  /\ env.ok
  /\ ~dec.called /\ ~misuse.called
  /\ \E owner \in GeneratedOwners, password \in Passwords :
       LET wire == WireOf(env.envelope, "json", "none", 1, "plain")
           publicKey == PublishedKey(owner)
           privateKey == RetrievedKey(owner, password)
           res == encryptMessage(env.plaintext, <<[id |-> owner, key |-> privateKey]>>,
                                 FreshKeyAndIv(rnd), <<"plain">>)
       IN  misuse' = [called |-> TRUE, owner |-> owner, publicKey |-> publicKey,
                      privateKey |-> privateKey,
                      decryptWithPublic |->
                        decryptMessage(wire.ciphertext, wire.encrypted_key, wire.iv,
                                       publicKey, owner),
                      encryptWithPrivate |-> IF res.ok THEN "ok" ELSE res.err,
                      decryptWithPrivate |->
                        decryptMessage(wire.ciphertext, wire.encrypted_key, wire.iv,
                                       privateKey, owner)]
  /\ UNCHANGED <<rnd, env, keyLog, dec, vaultVars, asyncVars, chatVars>>

Next == Encrypt \/ Decrypt \/ Misuse

Spec == Init /\ [][Next]_vars

(***************************************************************************)
(* Properties of the envelope cipher.                                      *)
(***************************************************************************)
IndexOf(entries, id) == CHOOSE i \in 1..Len(entries) : entries[i].id = id

\* The entry step 1 of decryptMessage is meant to resolve for the caller.
ResolvedIndex ==
  IF dec.form = "legacy" THEN dec.entry
  ELSE IF HasEntry(env.publicKeys, dec.myUserId)
       THEN IndexOf(env.publicKeys, dec.myUserId)
       ELSE 1

\* The record the call read differs from the envelope in the ciphertext, the
\* IV or the wrapped key resolved for the caller.
ChangedForCaller ==
  \/ dec.tamper \in {"ciphertext", "iv"}
  \/ dec.tamper = "key" /\ dec.entry = ResolvedIndex

\* The caller is a recipient and passes the private key of its own entry.
OwnKeyOfRecipient ==
  /\ HasEntry(env.publicKeys, dec.myUserId)
  /\ dec.keyOwner = dec.myUserId

\* The strings that the UTF-8 encoder and decoder give back unchanged.
Utf8Preserves(s) == TextDecode(TextEncode(s)) = s

\* C1: every recipient i of R who calls decryptMessage on the envelope of
\* encryptMessage(P, R) with its own private key and its own identifier gets
\* exactly P back, for every plaintext P.
C1_RoundTrip ==
  (dec.called /\ dec.form = "json" /\ dec.tamper = "none" /\ OwnKeyOfRecipient)
    => dec.result = TextOk(env.plaintext)

\* C2: changing the ciphertext, the IV or the wrapped key resolved for the
\* caller makes decryptMessage fail, and whenever decryptMessage returns, it
\* returns exactly the plaintext that was encrypted.
C2_TamperDetection ==
  dec.called =>
    /\ ChangedForCaller => ~dec.result.ok
    /\ dec.result.ok => dec.result.text = env.plaintext

\* The part of C2 that the code keeps: an altered ciphertext, IV or resolved
\* wrapped key never decrypts.
TamperedNeverDecrypts ==
  (dec.called /\ ChangedForCaller) => ~dec.result.ok

\* C5: a bare base64 string as encryptedKey is used as the wrapped key
\* whatever myUserId is, and the call returns the plaintext for the private
\* key it was wrapped for; stated here for the plaintexts that UTF-8 gives
\* back unchanged, so that a violation is one of the legacy detection.
C5_LegacyFormat ==
  (/\ dec.called /\ dec.form = "legacy" /\ dec.tamper = "none"
   /\ dec.keyOwner = env.publicKeys[dec.entry].id
   /\ Utf8Preserves(env.plaintext))
    => dec.result = TextOk(env.plaintext)

\* The content key an entry of the envelope yields to the private key of the
\* recipient it is filed under.
UnwrappedBy(i) ==
  RsaOaepDecrypt(PrivateKey(env.publicKeys[i].key.kp),
                 Atob(env.envelope.encryptedKeys[i].val).buf)

\* What the content key of entry i decrypts the ciphertext of the envelope
\* to, read as text the way decryptMessage reads it.
DecryptedBy(i) ==
  LET decrypted == AesGcmDecrypt(ImportAesKey(UnwrappedBy(i).buf, {"decrypt"}).key,
                                 Atob(env.envelope.iv).buf,
                                 Atob(env.envelope.ciphertext).buf)
  IN  IF decrypted.ok /\ decrypted.buf.b = "bytes"
      THEN TextOk(TextDecode(decrypted.buf.seq))
      ELSE TextThrow(decrypted.err)

\* C6: the envelope has exactly one wrapped key per recipient identifier of
\* R, every entry unwraps under its recipient's private key to one and the
\* same content key, and that key decrypts the ciphertext to P.
C6_OneKeyPerRecipient ==
  env.ok =>
    LET keys == env.envelope.encryptedKeys
    IN  /\ Len(keys) = Len(env.publicKeys)
        /\ Ids(keys) = Ids(env.publicKeys)
        /\ Cardinality(Ids(keys)) = Len(keys)
        /\ \A i \in 1..Len(env.publicKeys) :
             /\ i <= Len(keys) /\ keys[i].id = env.publicKeys[i].id
             /\ UnwrappedBy(i).ok
             /\ UnwrappedBy(i) = UnwrappedBy(1)
             /\ DecryptedBy(i) = TextOk(env.plaintext)

\* The part of C6 that the code keeps: one entry per recipient, all of one
\* content key, which decrypts the ciphertext to the UTF-8 encoding that
\* TextEncoder gave P.
OneKeyPerRecipientEncoded ==
  env.ok =>
    LET keys == env.envelope.encryptedKeys
    IN  /\ Len(keys) = Len(env.publicKeys)
        /\ Ids(keys) = Ids(env.publicKeys)
        /\ Cardinality(Ids(keys)) = Len(keys)
        /\ \A i \in 1..Len(env.publicKeys) :
             /\ i <= Len(keys) /\ keys[i].id = env.publicKeys[i].id
             /\ UnwrappedBy(i).ok
             /\ UnwrappedBy(i) = UnwrappedBy(1)
             /\ AesGcmDecrypt(ImportAesKey(UnwrappedBy(i).buf, {"decrypt"}).key,
                              Atob(env.envelope.iv).buf,
                              Atob(env.envelope.ciphertext).buf)
                  = BufOk(Bytes(TextEncode(env.plaintext)))

\* The buffers anyone holding the envelope can read off it.
ReadableBuffers(e) ==
  {Atob(e.ciphertext).buf, Atob(e.iv).buf}
    \cup {Atob(e.encryptedKeys[i].val).buf : i \in 1..Len(e.encryptedKeys)}

\* C7: every call of encryptMessage encrypts under a (content key, IV) pair
\* of its own, so no two envelopes share one, and what the call leaves
\* behind (the envelope it returns) holds the content key only wrapped.
C7_FreshKeyAndIv ==
  /\ \A i, j \in 1..Len(keyLog) :
       i # j => <<keyLog[i].aesRaw, keyLog[i].ivArr>> # <<keyLog[j].aesRaw, keyLog[j].ivArr>>
  /\ env.ok => keyLog[Len(keyLog)].aesRaw \notin ReadableBuffers(env.envelope)

C7_Witness == Len(keyLog) >= 2 /\ keyLog[2].differs

\* C9: given a recipient map without an entry for myUserId, decryptMessage
\* goes on with the first entry of the map: it returns the plaintext to the
\* holder of the first recipient's private key, and for any other key fails
\* in the RSA-OAEP decryption of that entry, not before.
C9_FirstEntryFallback ==
  (/\ dec.called /\ dec.form = "json"
   /\ ~HasEntry(env.publicKeys, dec.myUserId))
    => IF dec.keyOwner = env.publicKeys[1].id /\ ~ChangedForCaller
       THEN dec.result = TextOk(TextDecode(TextEncode(env.plaintext)))
       ELSE IF dec.keyOwner # env.publicKeys[1].id \/ (dec.tamper = "key" /\ dec.entry = 1)
            THEN ~dec.result.ok /\ dec.result.err = "OperationError"
            ELSE ~dec.result.ok

C9_Witness ==
  /\ dec.called /\ dec.form = "json" /\ dec.tamper = "none"
  /\ Len(env.publicKeys) = 2
  /\ ~HasEntry(env.publicKeys, dec.myUserId)
  /\ dec.keyOwner = env.publicKeys[1].id
  /\ dec.result.ok /\ dec.result.text # << >>

\* C15: a key of importPublicKey has the usage encrypt and no other:
\* encryptMessage wraps the content key under it, and decryptMessage given it
\* as the private key throws; a key of retrievePrivateKey has the usage
\* decrypt and no other: decryptMessage returns to a recipient with it, and
\* encryptMessage given it as a recipient's key throws.
C15_LeastCapability ==
  /\ env.called =>
       /\ env.ok
       /\ \A i \in 1..Len(env.publicKeys) :
            /\ env.publicKeys[i].key.usages = {"encrypt"}
            /\ Atob(env.envelope.encryptedKeys[i].val).ok
  /\ misuse.called =>
       /\ misuse.publicKey.type = "public" /\ misuse.publicKey.usages = {"encrypt"}
       /\ misuse.decryptWithPublic = TextThrow("InvalidAccessError")
       /\ misuse.privateKey.type = "private" /\ misuse.privateKey.usages = {"decrypt"}
       /\ misuse.encryptWithPrivate = "InvalidAccessError"
       /\ HasEntry(env.publicKeys, misuse.owner) => misuse.decryptWithPrivate.ok

C15_Witness ==
  /\ misuse.called
  /\ HasEntry(env.publicKeys, misuse.owner)
  /\ ~misuse.decryptWithPublic.ok
  /\ misuse.decryptWithPrivate.ok /\ misuse.decryptWithPrivate.text # << >>

\* C17: with the private key of a user who is no recipient of the envelope
\* decryptMessage throws for every myUserId, one with an entry in the map or
\* one without (first-entry fallback), for the map and for any single
\* wrapped key of it, altered or not; it returns no text.
C17_NonRecipientFails ==
  (dec.called /\ dec.keyOwner \notin Ids(env.publicKeys))
    => ~dec.result.ok /\ dec.result.text = << >>

C17_Witness ==
  /\ dec.called /\ dec.form = "json" /\ dec.tamper = "none"
  /\ Len(env.publicKeys) = 2
  /\ dec.keyOwner \notin Ids(env.publicKeys)
  /\ HasEntry(env.publicKeys, dec.myUserId)
  /\ dec.result.err = "OperationError"

(***************************************************************************)
(* The vault as a state machine: calls of storePrivateKey with a private   *)
(* key of generateKeyPair, and calls of retrievePrivateKey.  lastStore     *)
(* holds the arguments of the last completed storePrivateKey for each      *)
(* user, lastPut the last call of storePrivateKey and the store it found, *)
(* reading the call of retrievePrivateKey that has read its record, ret    *)
(* the arguments and the result of the last retrievePrivateKey that has    *)
(* returned since the last storePrivateKey, wrongTried the users whose     *)
(* present record a call failed to unlock.                                 *)
(***************************************************************************)

Store ==
  /\ rnd < 2 * MaxStores
  /\ \E userId \in GeneratedOwners, kid \in GeneratedOwners, password \in Passwords,
        txOk \in BOOLEAN :
       LET privateKey == generateKeyPair(kid).privateKey
           res == storePrivateKey(vault, userId, privateKey, password,
                                  RandomBytes(rnd), RandomBytes(rnd + 1), txOk)
       IN  /\ vault' = res.store
           /\ lastStore' = IF res.ok
                           THEN [k \in DOMAIN lastStore \cup {userId} |->
                                   IF k = userId
                                   THEN [kp |-> privateKey.kp, password |-> password]
                                   ELSE lastStore[k]]
                           ELSE lastStore
           /\ lastPut' = [called |-> TRUE, userId |-> userId, ok |-> res.ok,
                          before |-> vault]
           /\ wrongTried' = IF res.ok THEN wrongTried \ {userId} ELSE wrongTried
  /\ rnd' = rnd + 2
  /\ ret' = NoRetrieve
  /\ UNCHANGED <<envelopeVars, asyncVars, chatVars>>

\* retrievePrivateKey up to the result of its get request: lines 99 to 105.
\* One call is followed at a time.
RetrieveGet ==
  /\ ~reading.active
  /\ \E userId \in Users, password \in Passwords :
       reading' = [active |-> TRUE, userId |-> userId, password |-> password,
                   found |-> hasPrivateKey(vault, userId),
                   data |-> IF userId \in DOMAIN vault THEN vault[userId] ELSE NoRecord,
                   known |-> IF userId \in DOMAIN lastStore
                             THEN [has |-> TRUE, kp |-> lastStore[userId].kp,
                                   password |-> lastStore[userId].password]
                             ELSE NoStored]
  /\ UNCHANGED <<rnd, envelopeVars, vaultVars, storing, wrapLog, chatVars>>

\* retrievePrivateKey on the record it has read: lines 106 and 107.  A call
\* of storePrivateKey may have completed since the get request.
RetrieveDecrypt ==
  /\ reading.active
  /\ LET snapshot == IF reading.found THEN reading.userId :> reading.data ELSE << >>
         res == retrievePrivateKey(snapshot, reading.userId, reading.password)
         present == /\ reading.userId \in DOMAIN vault
                    /\ vault[reading.userId] = reading.data
     IN  /\ ret' = [called |-> TRUE, userId |-> reading.userId,
                    password |-> reading.password, found |-> reading.found,
                    known |-> reading.known,
                    before |-> reading.data, kind |-> res.kind, key |-> res.key,
                    err |-> res.err, decrypts |-> res.decrypts]
         /\ wrongTried' = IF res.kind = "throw" /\ present
                          THEN wrongTried \cup {reading.userId}
                          ELSE wrongTried
  /\ reading' = NoRead
  /\ UNCHANGED <<rnd, envelopeVars, vault, lastStore, lastPut, storing, wrapLog,
                 chatVars>>

VaultNext == Store \/ RetrieveGet \/ RetrieveDecrypt

VaultSpec == Init /\ [][VaultNext]_vars

(***************************************************************************)
(* Properties of the vault.                                                *)
(***************************************************************************)
\* The last retrievePrivateKey read its record after a storePrivateKey for
\* the owner had completed.
RetrievedStored == ret.called /\ ret.known.has

\* What C3 says of the result of a call that read the record of a completed
\* storePrivateKey(ownerId, key, pw).
WrongPasswordThrows ==
  RetrievedStored =>
    LET stored == ret.known
    IN  /\ ret.found
        /\ ret.password # stored.password
             => ret.kind = "throw" /\ ret.err = "OperationError" /\ ret.key = NoKey
        /\ ret.password = stored.password
             => /\ ret.kind = "key"
                /\ ret.key.usages = {"decrypt"}
                /\ \A look \in OaepLooks(stored.kp) :
                     RsaOaepDecrypt(ret.key,
                        RsaOaepEncrypt(PublicKey(stored.kp), RandomBytes(0), look).buf)
                       = BufOk(RandomBytes(0))

\* C3: after storePrivateKey(ownerId, key, pw), retrievePrivateKey with
\* another password throws, and no step of retrievePrivateKey changes the
\* store; with pw, also after failed attempts, it returns a decrypt-only
\* private key that unwraps what RSA-OAEP encrypted under the public key of
\* the stored pair.
C3_WrongPassword ==
  /\ []WrongPasswordThrows
  /\ [][reading' # reading => vault' = vault]_vars

\* The part of C3 that the code keeps: a password whose UTF-8 encoding is
\* not the one of pw throws, one with the encoding of pw unlocks the record.
WrongEncodingThrows ==
  RetrievedStored =>
    LET stored == ret.known
    IN  /\ TextEncode(ret.password) # TextEncode(stored.password)
             => ret.kind = "throw" /\ ret.err = "OperationError" /\ ret.key = NoKey
        /\ TextEncode(ret.password) = TextEncode(stored.password)
             => ret.kind = "key" /\ ret.key = PrivateKey(stored.kp)

\* C4: for an owner without a record retrievePrivateKey returns null for
\* every password, throws nothing and calls no decryption.
C4_UnknownOwner ==
  (ret.called /\ ~ret.known.has)
    => /\ ~ret.found
       /\ ret.kind = "null" /\ ret.err = "" /\ ret.key = NoKey
       /\ ret.decrypts = 0

C4_Witness ==
  /\ ret.called /\ ret.userId \notin DOMAIN vault
  /\ DOMAIN vault # {}
  /\ ret.kind = "null"

\* C10: every record holds, next to the ciphertext, the salt and the
\* iteration count it was wrapped with.
C10_ParametersInRecord ==
  \A u \in DOMAIN vault : {"encrypted", "salt", "iterations"} \subseteq DOMAIN vault[u]

\* What the code has instead: every record holds the ciphertext, the salt
\* and the IV it was wrapped with and nothing else; the iteration count is
\* the literal that encryptPrivateKey and decryptPrivateKey both use, and
\* with it and the stored salt and IV the password of the store call
\* unlocks the record.
SaltAndIvInRecord ==
  /\ \A u \in DOMAIN vault :
       /\ u \in DOMAIN lastStore
       /\ DOMAIN vault[u] = {"encrypted", "salt", "iv"}
       /\ vault[u].encrypted.key
            = Pbkdf2(TextEncode(lastStore[u].password), vault[u].salt, iterations)
       /\ vault[u].encrypted.iv = vault[u].iv
       /\ vault[u].encrypted.data = Pkcs8(lastStore[u].kp)
  /\ (RetrievedStored /\ ret.password = ret.known.password)
       => ret.kind = "key" /\ ret.key.kp = ret.known.kp

\* C11: the store holds one record per owner that stored, the one of the
\* owner's last completed storePrivateKey: retrievePrivateKey returns that
\* call's private key for that call's password and throws for any other
\* password, one of an earlier call included; a call of storePrivateKey
\* changes no record of another owner, and none at all when it fails.
C11_LastWriteWins ==
  /\ DOMAIN vault = DOMAIN lastStore
  /\ RetrievedStored =>
       LET stored == ret.known
       IN  /\ ret.password = stored.password
                => ret.kind = "key" /\ ret.key = PrivateKey(stored.kp)
           /\ ret.password # stored.password => ret.kind = "throw"
  /\ lastPut.called =>
       /\ \A u \in DOMAIN lastPut.before \ {lastPut.userId} :
            u \in DOMAIN vault /\ vault[u] = lastPut.before[u]
       /\ DOMAIN vault \subseteq DOMAIN lastPut.before \cup {lastPut.userId}
       /\ ~lastPut.ok => vault = lastPut.before

(***************************************************************************)
(* The vault under interleaved calls.  storePrivateKey awaits               *)
(* encryptPrivateKey and openDB before its transaction puts the record;    *)
(* retrievePrivateKey awaits the result of its get request before it calls *)
(* decryptPrivateKey.  Other calls run at each of these awaits.  storing   *)
(* holds the calls of storePrivateKey that have their record and have not  *)
(* put it yet, reading the call of retrievePrivateKey that has read,       *)
(* wrapLog what encryptPrivateKey has returned so far and for which key    *)
(* and password.                                                           *)
(***************************************************************************)
\* storePrivateKey up to its transaction: line 87.
StoreEncrypt ==
  /\ rnd < 2 * MaxWrites
  /\ \E userId \in GeneratedOwners, kid \in GeneratedOwners, password \in Passwords :
       LET privateKey == generateKeyPair(kid).privateKey
           wrapped == encryptPrivateKey(privateKey, password,
                                        RandomBytes(rnd), RandomBytes(rnd + 1))
       IN  /\ wrapped.ok
           /\ storing' = storing \cup {[userId |-> userId, record |-> wrapped.record]}
           /\ wrapLog' = wrapLog \cup {[record |-> wrapped.record, kp |-> privateKey.kp,
                                        password |-> password]}
  /\ rnd' = rnd + 2
  /\ UNCHANGED <<envelopeVars, vaultVars, reading, chatVars>>

\* storePrivateKey from its transaction on: lines 88 to 94.
StorePut ==
  /\ \E w \in storing, txOk \in BOOLEAN :
       /\ storing' = storing \ {w}
       /\ vault' = IF txOk THEN Put(vault, w.userId, w.record) ELSE vault
  /\ UNCHANGED <<rnd, envelopeVars, lastStore, lastPut, ret, wrongTried, reading,
                 wrapLog, chatVars>>

AsyncVaultNext == StoreEncrypt \/ StorePut \/ RetrieveGet \/ RetrieveDecrypt

AsyncVaultSpec == Init /\ [][AsyncVaultNext]_vars

\* The record is the one a single call of encryptPrivateKey returned.
FromOneCall(record) == \E w \in wrapLog : w.record = record

\* C13: under any interleaving of storePrivateKey and retrievePrivateKey the
\* record a read observes is absent or has its ciphertext, salt and IV from
\* one call of storePrivateKey, and retrievePrivateKey returns that call's
\* key for a password that encodes as that call's password does and throws
\* for any other; the same holds of every record in the store.
C13_AtomicPerOwner ==
  /\ \A u \in DOMAIN vault : FromOneCall(vault[u])
  /\ reading.active => IF reading.found THEN FromOneCall(reading.data)
                                        ELSE reading.data = NoRecord
  /\ ret.called =>
       IF ret.found
       THEN \E w \in wrapLog :
              /\ w.record = ret.before
              /\ TextEncode(ret.password) = TextEncode(w.password)
                   => ret.kind = "key" /\ ret.key.kp = w.kp
              /\ TextEncode(ret.password) # TextEncode(w.password)
                   => ret.kind = "throw"
       ELSE ret.kind = "null"

\* A read returned the key of a record that a second storePrivateKey for the
\* same owner replaced between the get request and the decryption.
C13_Witness ==
  /\ ret.called /\ ret.found /\ ret.kind = "key"
  /\ ret.userId \in DOMAIN vault
  /\ vault[ret.userId] # ret.before
  /\ vault[ret.userId].salt # ret.before.salt

(***************************************************************************)
(* The chat page as a state machine: signup and login on this device, the  *)
(* steps of init, the realtime subscription and sendMessage, together with *)
(* what other clients write to the tables.  Calls run to their next await  *)
(* on the network and other calls run in between.                          *)
(***************************************************************************)
\* The texts of the input field.
NewMessages == {<<104>>, <<55357>>, <<65279>>}

\* '🔒 Unable to decrypt' and '🔒 Encrypted message'
UnableToDecrypt ==
  <<55357, 56594, 32, 85, 110, 97, 98, 108, 101, 32, 116, 111, 32, 100, 101, 99,
    114, 121, 112, 116>>
EncryptedMessage ==
  <<55357, 56594, 32, 69, 110, 99, 114, 121, 112, 116, 101, 100, 32, 109, 101,
    115, 115, 97, 103, 101>>

\* The rows of the conversation of user and friendId: the filter of the
\* query of loadMessages and the test of the INSERT handler.
InConversation(msg) ==
  \/ msg.sender_id = friendId /\ msg.receiver_id = user
  \/ msg.sender_id = user /\ msg.receiver_id = friendId

\* The entry of the displayed list for a row.
Entry(msg, text) == [id |-> msg.id, sender_id |-> msg.sender_id, text |-> text]

\* The try and catch around decryptMessage: the entry for one row, and how
\* often decryptMessage was called for it.
DecryptOrPlaceholder(msg, pk, placeholder) ==
  LET res == decryptMessage(msg.ciphertext, msg.encrypted_key, msg.iv, pk, user)
  IN  [entry |-> Entry(msg, IF res.ok THEN res.text ELSE placeholder),
       ok |-> res.ok, calls |-> 1]

\* The loop of loadMessages over the rows of the query.
DecryptAll(data, pk) ==
  [i \in 1..Len(data) |-> DecryptOrPlaceholder(data[i], pk, UnableToDecrypt).entry]

\* The updater that appends whatever the list holds.
AppendIfAbsent_Always(prev, entry) == Append(prev, entry)

\* The updater passed to setMessages by the INSERT handler and by
\* sendMessage: prev when it has an entry of that id, else prev and the entry.
AppendIfAbsent(prev, entry) ==
  IF \E i \in 1..Len(prev) : prev[i].id = entry.id THEN prev ELSE Append(prev, entry)

\* The row the sendMessage of another user's chat page inserts for the
\* receiver user, from the friendProfile and myProfile that page loaded in
\* its init: the key of the receiver first, then the sender's own when the
\* profile the page loaded has one.
RowFrom(sender, text, r, id, fProfile, mProfile) ==
  LET rKey == importPublicKey(fProfile.public_key)
      own == IF mProfile.public_key # Null
             THEN <<[id |-> sender, key |-> importPublicKey(mProfile.public_key).key]>>
             ELSE << >>
      pubKeys == <<[id |-> user, key |-> rKey.key]>> \o own
      encrypted == encryptMessage(text, pubKeys, FreshKeyAndIv(r),
                                  [i \in 1..Len(pubKeys) |-> "plain"])
  IN  [id |-> id, sender_id |-> sender, receiver_id |-> user,
       ciphertext |-> encrypted.envelope.ciphertext,
       encrypted_key |-> JsonStringify(encrypted.envelope.encryptedKeys),
       iv |-> encrypted.envelope.iv]

\* The least length of a password the signup form goes on with.
MinPasswordLength == 6

\* The least length of a username the signup form goes on with.
MinUsernameLength == 3

\* The password the signup is made with: 'hhhhhh'.
SignupPassword == <<104, 104, 104, 104, 104, 104>>

\* The passwords typed into the signup form: none, 'h', 'hhhhh' and the
\* password the signup is made with.
SignupFormPasswords ==
  {<< >>, <<104>>, <<104, 104, 104, 104, 104>>, SignupPassword}

\* The usernames typed into the signup form: 'al' and 'alice'.
SignupFormUsernames == {<<97, 108>>, <<97, 108, 105, 99, 101>>}

\* The passwords typed into the login form: none, the one of the signup,
\* and 'hhhhhi'.
LoginFormPasswords ==
  {<< >>, SignupPassword, <<104, 104, 104, 104, 104, 105>>}

\* The messages of the errors the auth service answers with; the empty
\* message stands for an error without one.
AuthErrorMessages == {"Invalid login credentials", "User already registered", ""}

\* toast.error(err.message || fallback)
ErrorToast(message, fallback) == IF message # "" THEN message ELSE fallback

\* handleSignup on this device for user, up to the response of auth.signUp:
\* the form's tests, generateKeyPair, exportPublicKey and auth.signUp, which
\* creates the profile row without a key.  A form with an empty field
\* returns at once; a username or a password that is too short is reported
\* and nothing else is done.  An error, or 'Signup failed' for a response
\* without user, is thrown and reported by the catch with its message, and
\* the form can be sent again.
handleSignup ==
  /\ initPc = "start" /\ session = NoPassword
  /\ profileSelects[user] = NoSelects
  /\ user \notin DOMAIN vault
  /\ signup.pc = "idle"
  /\ \E username \in SignupFormUsernames, password \in SignupFormPasswords,
        signUpOk \in BOOLEAN, message \in AuthErrorMessages :
       IF password = << >>
       THEN UNCHANGED <<signup, toast>>
       ELSE IF Len(username) < MinUsernameLength
       THEN /\ toast' = "Username must be at least 3 characters"
            /\ UNCHANGED signup
       ELSE IF Len(password) < MinPasswordLength
       THEN /\ toast' = "Password must be at least 6 characters"
            /\ UNCHANGED signup
       ELSE IF signUpOk
       THEN /\ signup' = [signup EXCEPT !.pc = "created"]
            /\ toast' = ""
       ELSE /\ signup' = [signup EXCEPT !.pc = "idle"]
            /\ toast' = ErrorToast(message, "Signup failed")
  /\ UNCHANGED <<rnd, envelopeVars, vaultVars, asyncVars, inviteVars, session,
                 profiles, friendProfile, myProfile, profileSelects, unlockedKey, initPc, queryData,
                 channel, pending, messagesTable, messages, audit>>

\* The values of tx.error storePrivateKey rejects with: a DOMException with
\* its message, or null, on which err.message throws inside the catch and no
\* toast is shown.
TxErrors ==
  {[isNull |-> FALSE, message |-> "The transaction was aborted"],
   [isNull |-> FALSE, message |-> ""],
   [isNull |-> TRUE, message |-> ""]}

\* handleSignup from the response of auth.signUp to the end of
\* storePrivateKey, whose rejection the catch reports.  The random values of
\* a call that stores nothing are not seen again and are drawn anew.
handleSignupStore ==
  /\ signup.pc = "created"
  /\ \E password \in {p \in SignupFormPasswords : Len(p) >= MinPasswordLength},
        txOk \in BOOLEAN, txError \in TxErrors :
       LET keyPair == generateKeyPair(user)
           res == storePrivateKey(vault, user, keyPair.privateKey, password,
                                  RandomBytes(rnd), RandomBytes(rnd + 1), txOk)
       IN  /\ rnd' = IF res.ok THEN rnd + 2 ELSE rnd
           /\ vault' = res.store
           /\ signup' = [signup EXCEPT !.pc = IF res.ok THEN "stored" ELSE "idle"]
           /\ toast' = IF res.ok \/ txError.isNull THEN ""
                       ELSE ErrorToast(txError.message, "Signup failed")
  /\ UNCHANGED <<envelopeVars, lastStore, lastPut, ret, wrongTried, asyncVars,
                 inviteVars, session, profiles, friendProfile, myProfile, profileSelects,
                 unlockedKey, initPc, queryData, channel, pending, messagesTable,
                 messages, audit>>

\* handleSignup from the end of storePrivateKey: the update of the profile
\* row, whose error is not looked at, and the toast.
handleSignupUpdate ==
  /\ signup.pc = "stored"
  /\ \E updateOk \in BOOLEAN :
       LET keyPair == generateKeyPair(user)
           publicKeyStr == exportPublicKey(keyPair.publicKey)
       IN  /\ profiles' = IF updateOk
                          THEN [profiles EXCEPT ![user].public_key = publicKeyStr]
                          ELSE profiles
           /\ signup' = [signup EXCEPT !.pc = "done"]
  /\ toast' = "Account created! Keys generated securely."
  /\ UNCHANGED <<rnd, envelopeVars, vaultVars, asyncVars, inviteVars, session,
                 friendProfile, myProfile, profileSelects, unlockedKey, initPc, queryData, channel,
                 pending, messagesTable, messages, audit>>

\* handleLogin on the auth page, before the chat page is opened: a form
\* without password returns at once; the password the auth service accepted
\* goes to sessionStorage, replacing the one kept there; a refused login is
\* reported and writes nothing.  The service keeps the account's password;
\* it is not bound to the password the vault record was wrapped under.
handleLogin ==
  /\ initPc = "start"
  /\ profileSelects[user] = NoSelects
  /\ signup.pc \notin {"created", "stored"}
  /\ \E password \in LoginFormPasswords, signInOk \in BOOLEAN,
        message \in AuthErrorMessages :
       IF password = << >>
       THEN UNCHANGED <<session, toast>>
       ELSE IF signInOk
       THEN /\ session' = password
            /\ toast' = "Welcome back!"
       ELSE /\ toast' = ErrorToast(message, "Login failed")
            /\ UNCHANGED session
  /\ UNCHANGED <<rnd, envelopeVars, vaultVars, asyncVars, inviteVars, signup, profiles, friendProfile,
                 myProfile, profileSelects, unlockedKey, initPc, queryData, channel, pending,
                 messagesTable, messages, audit>>

\* The key pair generateKeyPair makes in a signup of u on another device:
\* for user, whose signup on this device is in the model, another pair than
\* that one.
OtherDeviceKeyId(u) == IF u = user THEN "alice-2" ELSE u

\* The update that stores an exported public key in its owner's profile row,
\* by a signup on another device.
PublishKey ==
  /\ \E u \in {user, friendId} :
       /\ profiles[u].public_key = Null
       /\ profiles' = [profiles EXCEPT
            ![u].public_key =
               exportPublicKey(generateKeyPair(OtherDeviceKeyId(u)).publicKey)]
  /\ toast' = ""
  /\ UNCHANGED <<rnd, envelopeVars, vaultVars, asyncVars, inviteVars, signup, session, friendProfile,
                 myProfile, profileSelects, unlockedKey, initPc, queryData, channel, pending,
                 messagesTable, messages, audit>>

\* The friend of the chat page of u: friendId on the page of user, and user
\* on the page of another user, whose rows go to user.
FriendOf(u) == IF u = user THEN friendId ELSE user

\* The server answers the first select of init on the chat page of u: the
\* row of the page's friend as it is at this moment.  The page of user is
\* opened after signup and login; the selects of a page are sent once.
SelectFriendProfile ==
  /\ \E u \in Users :
       /\ u = user => /\ initPc = "start"
                      /\ signup.pc \notin {"created", "stored"}
       /\ ~profileSelects[u].fProfile.loaded
       /\ profileSelects' = [profileSelects EXCEPT
            ![u].fProfile = [loaded |-> TRUE,
                             public_key |-> profiles[FriendOf(u)].public_key]]
  /\ toast' = ""
  /\ UNCHANGED <<rnd, envelopeVars, vaultVars, asyncVars, inviteVars, signup, session,
                 profiles, friendProfile, myProfile, unlockedKey, initPc, queryData,
                 channel, pending, messagesTable, messages, audit>>

\* The server answers the second select of init on the chat page of u: the
\* row of the page's own user as it is at this moment.
SelectMyProfile ==
  /\ \E u \in Users :
       /\ u = user => /\ initPc = "start"
                      /\ signup.pc \notin {"created", "stored"}
       /\ ~profileSelects[u].mProfile.loaded
       /\ profileSelects' = [profileSelects EXCEPT
            ![u].mProfile = [loaded |-> TRUE, public_key |-> profiles[u].public_key]]
  /\ toast' = ""
  /\ UNCHANGED <<rnd, envelopeVars, vaultVars, asyncVars, inviteVars, signup, session,
                 profiles, friendProfile, myProfile, unlockedKey, initPc, queryData,
                 channel, pending, messagesTable, messages, audit>>

\* init on the page of user once both selects are answered: the two
\* responses are set as friendProfile and myProfile.
LoadProfiles ==
  /\ initPc = "start"
  /\ profileSelects[user].fProfile.loaded /\ profileSelects[user].mProfile.loaded
  /\ friendProfile' = profileSelects[user].fProfile
  /\ myProfile' = profileSelects[user].mProfile
  /\ initPc' = "unlock"
  /\ toast' = ""
  /\ UNCHANGED <<rnd, envelopeVars, vaultVars, asyncVars, inviteVars, signup, session, profiles,
                 profileSelects, unlockedKey, queryData, channel, pending,
                 messagesTable, messages, audit>>

\* init from the read of sessionStorage to the call of loadMessages.
RetrieveKey ==
  /\ initPc = "unlock"
  /\ IF session = NoPassword
     THEN /\ toast' = "Session expired. Please log in again."
          /\ initPc' = "done"
          /\ audit' = [audit EXCEPT !.unlock = "nopassword"]
          /\ UNCHANGED unlockedKey
     ELSE LET pk == retrievePrivateKey(vault, user, session)
          IN  /\ audit' = [audit EXCEPT !.unlock = pk.kind,
                                        !.unlockCalls = audit.unlockCalls + 1]
              /\ IF pk.kind = "throw"
                 THEN /\ toast' = "Could not decrypt your keys. Please log in again."
                      /\ initPc' = "done"
                      /\ UNCHANGED unlockedKey
                 ELSE /\ unlockedKey' = pk.key
                      /\ initPc' = IF pk.kind = "key" THEN "select" ELSE "done"
                      /\ toast' = ""
  /\ UNCHANGED <<rnd, envelopeVars, vaultVars, asyncVars, inviteVars, signup, session, profiles,
                 friendProfile, myProfile, profileSelects, queryData, channel, pending,
                 messagesTable, messages>>

\* The subscription effect, which runs once unlockedKey is set: from now on
\* the INSERT events of the table reach the handler.
Subscribe ==
  /\ unlockedKey # NoKey /\ ~channel.on
  /\ channel' = [on |-> TRUE, from |-> Len(messagesTable)]
  /\ toast' = ""
  /\ UNCHANGED <<rnd, envelopeVars, vaultVars, asyncVars, inviteVars, signup, session, profiles,
                 friendProfile, myProfile, profileSelects, unlockedKey, initPc, queryData, pending,
                 messagesTable, messages, audit>>

\* loadMessages up to the result of its query: the rows of the conversation
\* in the order of created_at.  Without data loadMessages returns and init
\* ends with the list as it is.
loadMessagesSelect ==
  /\ initPc = "select"
  /\ \E selectOk \in BOOLEAN :
       IF selectOk
       THEN /\ queryData' = SelectSeq(messagesTable, InConversation)
            /\ initPc' = "decrypt"
       ELSE /\ initPc' = "done"
            /\ UNCHANGED queryData
  /\ toast' = ""
  /\ UNCHANGED <<rnd, envelopeVars, vaultVars, asyncVars, inviteVars, signup, session, profiles,
                 friendProfile, myProfile, profileSelects, unlockedKey, channel, pending,
                 messagesTable, messages, audit>>

\* loadMessages from its loop to setMessages(decrypted).
loadMessagesSet ==
  /\ initPc = "decrypt"
  /\ messages' = DecryptAll(queryData, unlockedKey)
  /\ audit' = [audit EXCEPT
       !.loaded = TRUE, !.loadRecords = queryData,
       !.loadShown = DecryptAll(queryData, unlockedKey),
       !.loadCalls = LET n[i \in 0..Len(queryData)] ==
                           IF i = 0 THEN 0
                           ELSE n[i - 1]
                                + DecryptOrPlaceholder(queryData[i], unlockedKey,
                                                       UnableToDecrypt).calls
                     IN  n[Len(queryData)]]
  /\ queryData' = << >>
  /\ initPc' = "done"
  /\ toast' = ""
  /\ UNCHANGED <<rnd, envelopeVars, vaultVars, asyncVars, inviteVars, signup, session, profiles,
                 friendProfile, myProfile, profileSelects, unlockedKey, channel, pending,
                 messagesTable>>

\* The INSERT handler of the subscription for the event of row i, which may
\* come more than once.
onInsert ==
  /\ channel.on
  /\ \E i \in (channel.from + 1)..Len(messagesTable) :
       LET msg == messagesTable[i]
           shown == DecryptOrPlaceholder(msg, unlockedKey, EncryptedMessage)
           had == \E k \in 1..Len(messages) : messages[k].id = msg.id
       IN  IF ~InConversation(msg)
           THEN UNCHANGED <<messages, audit>>
           ELSE /\ messages' = AppendIfAbsent(messages, shown.entry)
                /\ audit' = [audit EXCEPT
                     !.handlerAdded = IF had THEN audit.handlerAdded
                                      ELSE audit.handlerAdded \cup {msg.id},
                     !.handled = [called |-> TRUE, id |-> msg.id, ok |-> shown.ok,
                                  calls |-> shown.calls]]
  /\ toast' = ""
  /\ UNCHANGED <<rnd, envelopeVars, vaultVars, asyncVars, inviteVars, signup, session, profiles,
                 friendProfile, myProfile, profileSelects, unlockedKey, initPc, queryData, channel,
                 pending, messagesTable>>

\* sendMessage with the text newMessage in the input, up to the response of
\* the insert; insertOk tells whether the insert into messages succeeded.
\* The form is rendered once init has ended (loading is false).
\* The random values of a call that fails are not seen again and are drawn
\* anew by the next call.
sendMessage ==
  /\ initPc = "done"
  /\ ~pending.active
  /\ Len(messagesTable) < MaxMessages
  /\ \E newMessage \in NewMessages, insertOk \in BOOLEAN :
       /\ Trim(newMessage) # << >>
       /\ IF ~(friendProfile.loaded /\ friendProfile.public_key # Null)
          THEN /\ toast' = "This user hasn't set up encryption yet."
               /\ UNCHANGED <<rnd, messagesTable, pending, audit>>
          ELSE LET rKey == importPublicKey(friendProfile.public_key)
                   imported == PubKeysOf(rKey.key, myProfile)
                   pubKeys == imported.keys
                   encrypted == encryptMessage(Trim(newMessage), pubKeys,
                                               FreshKeyAndIv(rnd),
                                               [i \in 1..Len(pubKeys) |-> "plain"])
                   data == [id |-> Len(messagesTable) + 1,
                            sender_id |-> user,
                            receiver_id |-> friendId,
                            ciphertext |-> encrypted.envelope.ciphertext,
                            encrypted_key |-> JsonStringify(encrypted.envelope.encryptedKeys),
                            iv |-> encrypted.envelope.iv]
               IN  IF rKey.ok /\ imported.ok /\ encrypted.ok /\ insertOk
                   THEN /\ messagesTable' = Append(messagesTable, data)
                        /\ pending' = [active |-> TRUE, id |-> data.id,
                                       text |-> Trim(newMessage)]
                        /\ audit' = [audit EXCEPT
                             !.sentText = Append(audit.sentText, Trim(newMessage))]
                        /\ rnd' = rnd + 2
                        /\ toast' = ""
                   ELSE /\ toast' = "Failed to send message"
                        /\ UNCHANGED <<rnd, messagesTable, pending, audit>>
  /\ UNCHANGED <<envelopeVars, vaultVars, asyncVars, inviteVars, signup, session, profiles,
                 friendProfile, myProfile, profileSelects, unlockedKey, initPc, queryData, channel,
                 messages>>

\* sendMessage after the response of the insert: the sent text is added to
\* the list unless the subscription added the row already.
sendMessageDone ==
  /\ pending.active
  /\ messages' = AppendIfAbsent(messages,
                   [id |-> pending.id, sender_id |-> user, text |-> pending.text])
  /\ audit' = [audit EXCEPT !.completed = audit.completed \cup {pending.id}]
  /\ pending' = NoPending
  /\ toast' = ""
  /\ UNCHANGED <<rnd, envelopeVars, vaultVars, asyncVars, inviteVars, signup, session, profiles,
                 friendProfile, myProfile, profileSelects, unlockedKey, initPc, queryData, channel,
                 messagesTable>>

\* The sendMessage of the chat page of another user, whose friend is user:
\* the friend's page, or the page of a user outside the conversation.  The
\* form is there once the page's init has set the two profiles it loaded;
\* without a key in the friendProfile it loaded the page shows a toast of
\* its own and inserts nothing.  corrupt tells whether the stored ciphertext
\* is not the one AES-GCM made.
OtherSend ==
  /\ Len(messagesTable) < MaxMessages
  /\ \E sender \in Users \ {user}, newMessage \in NewMessages, corrupt \in BOOLEAN :
       /\ profileSelects[sender].fProfile.loaded
       /\ profileSelects[sender].mProfile.loaded
       /\ profileSelects[sender].fProfile.public_key # Null
       /\ Trim(newMessage) # << >>
       /\ sender # friendId \/ corrupt => newMessage = <<104>>
       /\ sender # friendId => ~corrupt
       /\ LET row == RowFrom(sender, Trim(newMessage), rnd, Len(messagesTable) + 1,
                             profileSelects[sender].fProfile,
                             profileSelects[sender].mProfile)
          IN  messagesTable' =
                Append(messagesTable,
                       IF corrupt THEN [row EXCEPT !.ciphertext = Tamper(row.ciphertext, "plain")]
                       ELSE row)
       /\ audit' = [audit EXCEPT !.sentText = Append(audit.sentText, Trim(newMessage))]
  /\ rnd' = rnd + 2
  /\ toast' = ""
  /\ UNCHANGED <<envelopeVars, vaultVars, asyncVars, inviteVars, signup, session, profiles,
                 friendProfile, myProfile, profileSelects, unlockedKey, initPc, queryData, channel,
                 pending, messages>>

ChatNext ==
  \/ handleSignup \/ handleSignupStore \/ handleSignupUpdate \/ handleLogin \/ PublishKey
  \/ SelectFriendProfile \/ SelectMyProfile \/ LoadProfiles \/ RetrieveKey
  \/ Subscribe \/ loadMessagesSelect \/ loadMessagesSet \/ onInsert
  \/ sendMessage \/ sendMessageDone \/ OtherSend

ChatSpec == Init /\ [][ChatNext]_vars

\* C8: every record sendMessage appends to messages carries encrypted_key as
\* a JSON object with an entry for the receiver and one for the sender.
C8_SenderIsRecipient ==
  \A i \in 1..Len(messagesTable) :
    LET parsed == JsonParse(messagesTable[i].encrypted_key)
    IN  /\ parsed.ok /\ parsed.kind = "object"
        /\ {messagesTable[i].receiver_id, messagesTable[i].sender_id}
             \subseteq Ids(parsed.entries)

\* What holds of every record instead: the JSON object has an entry for the
\* receiver.
ReceiverIsRecipient ==
  \A i \in 1..Len(messagesTable) :
    LET parsed == JsonParse(messagesTable[i].encrypted_key)
    IN  /\ parsed.ok /\ parsed.kind = "object"
        /\ messagesTable[i].receiver_id \in Ids(parsed.entries)

(***************************************************************************)
(* Properties of the chat page.                                            *)
(***************************************************************************)
\* The positions of the displayed list that hold an entry of the id.
Shown(id) == {k \in 1..Len(messages) : messages[k].id = id}

Placeholders == {UnableToDecrypt, EncryptedMessage}

\* The row decrypts for user under the key the page holds.
ValidForUser(msg) ==
  decryptMessage(msg.ciphertext, msg.encrypted_key, msg.iv, unlockedKey, user).ok

\* C12: the list loadMessages displays has one entry per row of the query, in
\* the query's order; the entry of a row whose decryption fails is the
\* placeholder, and the entry of every row valid for the user has the text
\* the row was sent with, whatever the other rows are.
C12_LoadIsolation ==
  audit.loaded =>
    /\ Len(audit.loadShown) = Len(audit.loadRecords)
    /\ \A i \in 1..Len(audit.loadRecords) :
         LET msg == audit.loadRecords[i]
         IN  /\ audit.loadShown[i].id = msg.id
             /\ audit.loadShown[i].text =
                  IF ValidForUser(msg) THEN audit.sentText[msg.id] ELSE UnableToDecrypt

\* The part of C12 that the code keeps: one entry per row in the query's
\* order, the placeholder for a row that fails, and for every other row the
\* text its bytes decode to.
LoadIsolatesFailures ==
  audit.loaded =>
    /\ Len(audit.loadShown) = Len(audit.loadRecords)
    /\ \A i \in 1..Len(audit.loadRecords) :
         LET msg == audit.loadRecords[i]
         IN  /\ audit.loadShown[i].id = msg.id
             /\ audit.loadShown[i].text =
                  IF ValidForUser(msg)
                  THEN TextDecode(TextEncode(audit.sentText[msg.id]))
                  ELSE UnableToDecrypt

\* C14: a record of the vault is the AES-GCM ciphertext of the PKCS8 bytes
\* under the key derived from the password, the salt and the IV, and holds
\* neither the password nor the derived key nor the PKCS8 bytes themselves;
\* the key column of a profile row is empty or the base64 of the SPKI bytes
\* of a public key.
C14_WrappedOnly ==
  /\ \A u \in DOMAIN vault :
       LET record == vault[u]
       IN  /\ DOMAIN record = {"encrypted", "salt", "iv"}
           /\ record.encrypted.b = "aes-gcm"
           /\ record.salt.b = "random" /\ record.iv.b = "random"
           /\ record.encrypted.data.b = "pkcs8"
           /\ record.encrypted.key.b = "pbkdf2"
           /\ record.encrypted.key.salt = record.salt
           /\ record.encrypted.iv = record.iv
  /\ \A u \in Users :
       \/ profiles[u].public_key = Null
       \/ /\ Atob(profiles[u].public_key).ok
          /\ Atob(profiles[u].public_key).buf.b = "spki"
          /\ \E kid \in {u, OtherDeviceKeyId(u)} :
               profiles[u].public_key = exportPublicKey(generateKeyPair(kid).publicKey)

C14_Witness ==
  /\ user \in DOMAIN vault
  /\ profiles[user].public_key # Null
  /\ unlockedKey = PrivateKey(KeyPairOf(user))

\* C16: decryptMessage is called at most once for each row loadMessages or
\* the INSERT handler is given, and a placeholder is displayed for a row
\* whose decryption failed; after retrievePrivateKey threw in init it is not
\* called again, the page holds no private key, has decrypted nothing and
\* has not subscribed.
C16_NoRetry ==
  /\ audit.loaded => audit.loadCalls <= Len(audit.loadRecords)
  /\ audit.handled.called =>
       /\ audit.handled.calls <= 1
       /\ ~audit.handled.ok =>
            /\ Shown(audit.handled.id) # {}
            /\ \A k \in Shown(audit.handled.id) : messages[k].text \in Placeholders
  /\ audit.unlock = "throw" =>
       /\ audit.unlockCalls = 1
       /\ unlockedKey = NoKey
       /\ ~channel.on /\ ~audit.loaded /\ ~audit.handled.called

\* The part of C16 that the code keeps: one call of decryptMessage per row,
\* one call of retrievePrivateKey, and nothing decrypted or subscribed to
\* after it threw.
NoAutomaticRetry ==
  /\ audit.loaded => audit.loadCalls = Len(audit.loadRecords)
  /\ audit.handled.called => audit.handled.calls = 1
  /\ audit.unlockCalls <= 1
  /\ audit.unlock = "throw" =>
       /\ unlockedKey = NoKey
       /\ ~channel.on /\ ~audit.loaded /\ ~audit.handled.called

\* C18: once sendMessage has completed for a row, the displayed list holds
\* exactly one entry of its id, and its text is the text that was sent.
C18_SenderSeesOwnText ==
  \A id \in audit.completed :
    /\ Cardinality(Shown(id)) = 1
    /\ \A k \in Shown(id) : messages[k].text = audit.sentText[id]

\* C19: no two entries of the displayed list have the same id.
C19_NoDuplicateIds ==
  \A i, j \in 1..Len(messages) : i # j => messages[i].id # messages[j].id

\* The INSERT handler was given a row the list had an entry of, after that
\* row's sendMessage completed and loadMessages set the list.
C19_Witness ==
  /\ audit.handled.called
  /\ audit.handled.id \notin audit.handlerAdded
  /\ audit.handled.id \in audit.completed
  /\ audit.loaded
  /\ Len(messages) = 2

\* C20: the displayed list holds an entry for every id the INSERT handler
\* has appended.
C20_NoLostMessage ==
  \A id \in audit.handlerAdded : Shown(id) # {}

\* The key pair whose private key the vault keeps for user under the signup
\* password, and whether the vault keeps one.
VaultKeyPair ==
  LET kept == retrievePrivateKey(vault, user, SignupPassword)
  IN  [held |-> kept.kind = "key", kp |-> kept.key.kp]

\* A step of handleSignup that leaves the profile row of the user with
\* another public key than it had.
SignupPublishes ==
  /\ signup' # signup
  /\ profiles'[user].public_key # profiles[user].public_key

\* C21: the vault holds a record for the user only once auth.signUp has
\* succeeded and storePrivateKey has completed; a step of handleSignup writes
\* a public key to the profile only after storePrivateKey, never when
\* auth.signUp or storePrivateKey fails, and then the vault holds the wrapped
\* private key of the pair whose public key the profile holds.
C21_SignupOrdering ==
  /\ [](user \in DOMAIN vault => signup.pc \in {"stored", "done"})
  /\ [][SignupPublishes =>
          /\ signup.pc = "stored"
          /\ VaultKeyPair.held
          /\ LET published == importPublicKey(profiles'[user].public_key)
             IN  published.ok /\ published.key.kp = VaultKeyPair.kp]_vars

C21_Witness ==
  /\ signup.pc = "done"
  /\ toast = "Account created! Keys generated securely."
  /\ VaultKeyPair.held
  /\ profiles[user].public_key = exportPublicKey(PublicKey(VaultKeyPair.kp))

\* C22: when handleSignup shows 'Account created! Keys generated securely.'
\* the profile row of the user holds the exported public key of the pair
\* whose private key the vault keeps.
C22_SuccessMeansPublished ==
  toast = "Account created! Keys generated securely." =>
    /\ VaultKeyPair.held
    /\ profiles[user].public_key = exportPublicKey(PublicKey(VaultKeyPair.kp))

(***************************************************************************)
(* The invite link: createInviteLink of the friend list, and loadInvite    *)
(* and acceptInvite of the invite page, one action for each request        *)
(* acceptInvite awaits.                                                    *)
(***************************************************************************)
\* Time passes; it is followed in steps of the lifetime of a token.
Tick ==
  /\ now + ExpiresAfterDays <= MaxTime
  /\ now' = now + ExpiresAfterDays
  /\ UNCHANGED <<rnd, envelopeVars, vaultVars, asyncVars, session, unlockedKey,
                 initPc, queryData, channel, pending, audit, profiles,
                 friendProfile, myProfile, profileSelects, messagesTable, messages, toast, signup,
                 invite_tokens, friend_requests, page,
                 listToast, copying>>

\* createInviteLink as u, to the response of the insert of
\* { created_by: user.id }: when the request fails no row is made and the
\* error is shown, else the call goes on to write the link to the clipboard.
createInviteLink(u) ==
  /\ Token \notin DOMAIN invite_tokens
  /\ u \notin copying
  /\ \E insertOk \in BOOLEAN :
       /\ invite_tokens' = IF insertOk
                           THEN [t \in {Token} |-> NewInvite(u, now)]
                           ELSE invite_tokens
       /\ copying' = IF insertOk THEN copying \cup {u} ELSE copying
       /\ listToast' = IF insertOk
                       THEN listToast
                       ELSE [user |-> u, toast |-> "Could not create link"]
  /\ UNCHANGED <<rnd, envelopeVars, vaultVars, asyncVars, session, unlockedKey,
                 initPc, queryData, channel, pending, audit, profiles,
                 friendProfile, myProfile, profileSelects, messagesTable, messages, toast, signup,
                 friend_requests, now, page>>

\* createInviteLink as u, from the response of the insert on: the link is
\* written to the clipboard and, unless that write is refused, the success
\* is shown.
createInviteLinkCopy(u) ==
  /\ u \in copying
  /\ copying' = copying \ {u}
  /\ \E copied \in BOOLEAN :
       listToast' = IF copied
                    THEN [user |-> u, toast |-> "Invite link copied!"]
                    ELSE listToast
  /\ UNCHANGED <<rnd, envelopeVars, vaultVars, asyncVars, session, unlockedKey,
                 initPc, queryData, channel, pending, audit, profiles,
                 friendProfile, myProfile, profileSelects, messagesTable, messages, toast, signup,
                 invite_tokens, friend_requests, now, page>>

\* The button of the header that copies the user id of u.
copyUid(u) ==
  /\ listToast' = [user |-> u, toast |-> "Your UID copied!"]
  /\ UNCHANGED <<rnd, envelopeVars, vaultVars, asyncVars, session, unlockedKey,
                 initPc, queryData, channel, pending, audit, profiles,
                 friendProfile, myProfile, profileSelects, messagesTable, messages, toast, signup,
                 invite_tokens, friend_requests, now,
                 page, copying>>

\* The page mounts for u and loadInvite runs, to the response of the select
\* of the unused token and the tests of created_by and expires_at: an error
\* is set, or the call goes on to ask for the inviter's profile.
loadInvite(u) ==
  /\ page[u].pc \in {"closed", "idle"}
  /\ LET sel == SelectUnusedInvite(u, invite_tokens, Token)
         invite == sel.row
         error == IF ~sel.found
                  THEN "This invite link is invalid or has expired."
                  ELSE IF invite.created_by = u
                  THEN "You can't use your own invite link."
                  ELSE IF invite.expires_at < now
                  THEN "This invite link has expired."
                  ELSE ""
     IN  page' = [page EXCEPT ![u].error = error,
                              ![u].inviterUsername = "",
                              ![u].pc = IF error = "" THEN "profile" ELSE "idle",
                              ![u].invite = IF error = "" THEN invite ELSE NoInvite,
                              ![u].toast = "",
                              ![u].atAccept = NoAccept]
  /\ UNCHANGED <<rnd, envelopeVars, vaultVars, asyncVars, session, unlockedKey,
                 initPc, queryData, channel, pending, audit, profiles,
                 friendProfile, myProfile, profileSelects, messagesTable, messages, toast, signup,
                 invite_tokens, friend_requests, now,
                 listToast, copying>>

\* loadInvite as u, from the response of the select of the inviter's
\* profile on: the name of the profile, which every user has, or 'Unknown'
\* when the request gave none.
loadInviteProfile(u) ==
  /\ page[u].pc = "profile"
  /\ \E selectOk \in BOOLEAN :
       page' = [page EXCEPT ![u].inviterUsername =
                                IF selectOk THEN page[u].invite.created_by
                                ELSE "Unknown",
                            ![u].pc = "idle",
                            ![u].invite = NoInvite]
  /\ UNCHANGED <<rnd, envelopeVars, vaultVars, asyncVars, session, unlockedKey,
                 initPc, queryData, channel, pending, audit, profiles,
                 friendProfile, myProfile, profileSelects, messagesTable, messages, toast, signup,
                 invite_tokens, friend_requests, now,
                 listToast, copying>>

\* acceptInvite as u, from the click on the button, which is rendered when
\* error is null and inviterUsername is set, to the response of the select.
\* Without a row the call throws 'Invalid invite' and the catch reports it.
acceptInviteSelect(u) ==
  /\ page[u].pc = "idle"
  /\ page[u].error = "" /\ page[u].inviterUsername # ""
  /\ LET sel == SelectUnusedInvite(u, invite_tokens, Token)
         has == Token \in DOMAIN invite_tokens
         atAccept ==
           [called |-> TRUE, exists |-> has,
            unused |-> has /\ invite_tokens[Token].used_at = NullTime,
            unexpired |-> has /\ ~(invite_tokens[Token].expires_at < now),
            notOwn |-> has /\ invite_tokens[Token].created_by # u,
            marked |-> FALSE, created |-> FALSE, reported |-> FALSE]
     IN  page' = [page EXCEPT ![u].pc = IF sel.found THEN "selected" ELSE "idle",
                              ![u].invite = sel.row,
                              ![u].toast = IF sel.found THEN "" ELSE "Invalid invite",
                              ![u].atAccept = atAccept]
  /\ UNCHANGED <<rnd, envelopeVars, vaultVars, asyncVars, session, unlockedKey,
                 initPc, queryData, channel, pending, audit, profiles,
                 friendProfile, myProfile, profileSelects, messagesTable, messages, toast, signup,
                 invite_tokens, friend_requests, now,
                 listToast, copying>>

\* acceptInvite as u: the update that marks the token used, whose response
\* is not looked at.
acceptInviteUpdate(u) ==
  /\ page[u].pc = "selected"
  /\ LET res == UpdateInvite(u, invite_tokens, Token, u, now)
     IN  /\ invite_tokens' = res.table
         /\ page' = [page EXCEPT ![u].pc = "updated",
                                 ![u].marked = @ \/ res.rows > 0,
                                 ![u].atAccept.marked = res.rows > 0]
  /\ UNCHANGED <<rnd, envelopeVars, vaultVars, asyncVars, session, unlockedKey,
                 initPc, queryData, channel, pending, audit, profiles,
                 friendProfile, myProfile, profileSelects, messagesTable, messages, toast, signup,
                 friend_requests, now,
                 listToast, copying>>

\* acceptInvite as u: the insert of the accepted friend request from the
\* inviter, whose response is not looked at, the toast and the navigation.
acceptInviteInsert(u) ==
  /\ page[u].pc = "updated"
  /\ LET row == [sender_id |-> page[u].invite.created_by, receiver_id |-> u,
                 status |-> "accepted"]
         res == InsertFriendRequest(u, friend_requests, row)
     IN  /\ friend_requests' = res.table
         /\ page' = [page EXCEPT ![u].pc = "closed",
                                 ![u].toast = "Friend added!",
                                 ![u].created = IF res.error THEN @ ELSE @ + 1,
                                 ![u].atAccept.created = ~res.error,
                                 ![u].atAccept.reported = TRUE]
  /\ UNCHANGED <<rnd, envelopeVars, vaultVars, asyncVars, session, unlockedKey,
                 initPc, queryData, channel, pending, audit, profiles,
                 friendProfile, myProfile, profileSelects, messagesTable, messages, toast, signup,
                 invite_tokens, now,
                 listToast, copying>>

\* The users whose sendFriendRequest is followed; the users are alike here,
\* and the inviter and the users who accept are any of them.
Requesters == {"alice"}

\* sendFriendRequest as u to a user of the search results, which leave u
\* out: the insert of a pending request and the toast.
sendFriendRequest(u, receiverId) ==
  /\ u \in Requesters
  /\ receiverId # u
  /\ Len(friend_requests) < MaxRequests
  /\ LET row == [sender_id |-> u, receiver_id |-> receiverId, status |-> "pending"]
         res == InsertFriendRequest(u, friend_requests, row)
     IN  /\ friend_requests' = res.table
         /\ listToast' = [user |-> u,
                          toast |-> IF res.error THEN "Could not send request"
                                    ELSE "Friend request sent!"]
  /\ UNCHANGED <<rnd, envelopeVars, vaultVars, asyncVars, session, unlockedKey,
                 initPc, queryData, channel, pending, audit, profiles,
                 friendProfile, myProfile, profileSelects, messagesTable, messages, toast, signup,
                 invite_tokens, now,
                 page, copying>>

\* handleRequest as u on a request the list shows, one with u as receiver
\* that was pending when the list was loaded: the update of its status,
\* whose response is not looked at, and the toast.
handleRequest(u, requestId, status) ==
  /\ requestId \in 1..Len(friend_requests)
  /\ friend_requests[requestId].receiver_id = u
  /\ LET res == UpdateFriendRequest(u, friend_requests, requestId, status)
     IN  friend_requests' = res.table
  /\ listToast' = [user |-> u,
                   toast |-> IF status = "accepted" THEN "Friend added!"
                             ELSE "Request declined"]
  /\ UNCHANGED <<rnd, envelopeVars, vaultVars, asyncVars, session, unlockedKey,
                 initPc, queryData, channel, pending, audit, profiles,
                 friendProfile, myProfile, profileSelects, messagesTable, messages, toast, signup,
                 invite_tokens, now,
                 page, copying>>

InviteNext ==
  \/ Tick
  \/ \E u \in Users : createInviteLink(u)
  \/ \E u \in Users : createInviteLinkCopy(u)
  \/ \E u \in Users : loadInvite(u)
  \/ \E u \in Users : loadInviteProfile(u)
  \/ \E u \in Users : acceptInviteSelect(u)
  \/ \E u \in Users : acceptInviteUpdate(u)
  \/ \E u \in Users : acceptInviteInsert(u)
  \/ \E u \in Users, receiverId \in Users : sendFriendRequest(u, receiverId)
  \/ \E u \in Users, requestId \in 1..MaxRequests, status \in {"accepted", "rejected"} :
       handleRequest(u, requestId, status)
  \/ \E u \in Users : copyUid(u)

InviteSpec == Init /\ [][InviteNext]_vars

\* The number of friend requests the calls of acceptInvite have made.
RECURSIVE CreatedBy(_)
CreatedBy(users) ==
  IF users = {} THEN 0
  ELSE LET u == CHOOSE v \in users : TRUE
       IN  page[u].created + CreatedBy(users \ {u})

NoRedemptionWritten ==
  /\ \A u \in Users : ~page[u].marked
  /\ CreatedBy(Users) = 0
  /\ \A t \in DOMAIN invite_tokens : invite_tokens[t].used_at = NullTime

\* C24: a call of acceptInvite shows 'Friend added!' only if, when it began,
\* the token existed, was unused, had not expired and was not created by the
\* caller, and then it has made the accepted friend request from the inviter
\* to the caller; a call that began otherwise makes no friend request and
\* does not mark the token used.
C24_AcceptOnlyIfValid ==
  \A u \in Users :
    LET a == page[u].atAccept
        valid == a.exists /\ a.unused /\ a.unexpired /\ a.notOwn
    IN  /\ a.reported => valid /\ a.created
        /\ a.called /\ ~valid => ~a.marked /\ ~a.created

====
